---- MODULE Spec2Model ----
(***************************************************************************)
(* A model of the text-transformation engine of ScriptedBibleEditor.py:    *)
(* executeEdits, executeEditCommands, splitUSFMMarkerFromText,             *)
(* executeEditChunkCommand and executeRegexEditChunkCommand.               *)
(*                                                                         *)
(* A Python str is modelled as a sequence of one-character strings, so     *)
(* "\\v 1" is <<"\\", "v", " ", "1">>.  Python offsets are 0-based; the     *)
(* model uses the 1-based index of the same character (offset + 1).        *)
(* A raised exception is the terminal state pc = "raised" with its class   *)
(* name in exc.                                                            *)
(***************************************************************************)
EXTENDS Integers, Sequences, FiniteSets, TLC

VARIABLES
    BBB,            \* executeEdits / executeEditCommands parameter BBB
    commandTables,  \* the ordered command tables (a sequence of command lists)
    inputText,      \* the text handed to the entry point
    pc,             \* the position of the interpreter
    exc,            \* the exception that ended the run, "" if none
    appliedText,    \* executeEdits: appliedText
    tableIx,        \* executeEdits: index of the table being applied
    adjustedText,   \* executeEditCommands: adjustedText
    cmdIx,          \* executeEditCommands: index of the command being applied
    scan,           \* executeEditCommands: the locals of the line-by-line loop
    command,        \* the EditCommand the running replacer was called with
    chunk,          \* the replacer's locals (its own adjustedText, counts, ...)
    caller,         \* where the running replacer returns to
    log,            \* what was logged / observed (ghost, for the properties)
    calls           \* the calls of executeEdits: which one is running (its
                    \* parameters and locals are the variables above) and
                    \* the parameters and locals of the others

vars == <<BBB, commandTables, inputText, pc, exc, appliedText, tableIx,
          adjustedText, cmdIx, scan, command, chunk, caller, log, calls>>

-----------------------------------------------------------------------------
(* Characters *)

BS == "\\"
NL == "\n"
CR == "\r"
SP == " "
BrokenPipe == "¦"

-----------------------------------------------------------------------------
(* Python str built-ins *)

\* s[i:] with i a 1-based index
From(s, i) == IF i > Len(s) THEN <<>> ELSE SubSeq(s, i, Len(s))

\* s[i-1:].startswith(sub)
StartsWithAt(s, sub, i) ==
    /\ i >= 1
    /\ i + Len(sub) - 1 <= Len(s)
    /\ \A k \in 1..Len(sub) : s[i + k - 1] = sub[k]

\* sub in s
Contains(s, sub) == \E i \in 1..(Len(s) + 1) : StartsWithAt(s, sub, i)

\* s.find(sub, start): the lowest index >= start of an occurrence, 0 for Python's -1
StrFind(s, sub, start) ==
    LET hits == {i \in start..(Len(s) + 1) : StartsWithAt(s, sub, i)}
    IN  IF hits = {} THEN 0 ELSE CHOOSE i \in hits : \A j \in hits : i <= j

\* the occurrences counted from index i on, the next one found at index at
RECURSIVE CountFrom(_, _, _)
CountFound(s, sub, at) ==
    IF at = 0 THEN 0 ELSE 1 + CountFrom(s, sub, at + Len(sub))
CountFrom(s, sub, i) ==
    CHOOSE n \in {CountFound(s, sub, at) : at \in {StrFind(s, sub, i)}} : TRUE

\* s.count(sub): non-overlapping occurrences; len(s)+1 for the empty sub
StrCount(s, sub) == IF sub = <<>> THEN Len(s) + 1 ELSE CountFrom(s, sub, 1)

\* the replacement from index i on, the next occurrence found at index at
RECURSIVE ReplaceFrom(_, _, _, _, _)
ReplaceFound(s, old, new, i, maxcount, at) ==
    IF maxcount = 0 \/ at = 0 THEN From(s, i)
    ELSE SubSeq(s, i, at - 1) \o new
         \o ReplaceFrom(s, old, new, at + Len(old), maxcount - 1)
ReplaceFrom(s, old, new, i, maxcount) ==
    CHOOSE r \in {ReplaceFound(s, old, new, i, maxcount, at) : at \in {StrFind(s, old, i)}} : TRUE

RECURSIVE Interleave(_, _, _, _)
Interleave(s, new, i, maxcount) ==
    IF maxcount = 0 THEN From(s, i)
    ELSE IF i > Len(s) THEN new
    ELSE new \o <<s[i]>> \o Interleave(s, new, i + 1, maxcount - 1)

\* s.replace(old, new, maxcount); maxcount = -1 replaces every occurrence.
\* The empty old is found before every character and at the end.
StrReplaceN(s, old, new, maxcount) ==
    IF old = <<>> THEN Interleave(s, new, 1, maxcount)
    ELSE ReplaceFrom(s, old, new, 1, maxcount)

\* only the first occurrence is replaced
StrReplaceFirst(s, old, new) == StrReplaceN(s, old, new, 1)

StrReplace(s, old, new) == StrReplaceN(s, old, new, -1)

\* the pieces from index start on, the next separator found at index at
RECURSIVE SplitFrom(_, _, _)
SplitFound(s, sep, start, at) ==
    IF at = 0 THEN <<From(s, start)>>
    ELSE <<SubSeq(s, start, at - 1)>> \o SplitFrom(s, sep, at + Len(sep))
SplitFrom(s, sep, start) ==
    CHOOSE r \in {SplitFound(s, sep, start, at) : at \in {StrFind(s, sep, start)}} : TRUE

\* s.split(sep), sep not empty
StrSplit(s, sep) == SplitFrom(s, sep, 1)

RECURSIVE StrJoin(_, _)
StrJoin(sep, parts) ==
    IF parts = <<>> THEN <<>>
    ELSE IF Len(parts) = 1 THEN parts[1]
    ELSE parts[1] \o sep \o StrJoin(sep, Tail(parts))

RECURSIVE RStrip(_, _)
RStrip(s, c) ==
    IF s # <<>> /\ s[Len(s)] = c THEN RStrip(SubSeq(s, 1, Len(s) - 1), c) ELSE s

\* s[:k] and s[k:] for a Python offset k >= 0
Take(s, k) == SubSeq(s, 1, IF k > Len(s) THEN Len(s) ELSE k)
Drop(s, k) == From(s, k + 1)

\* s.find(c) as Python returns it: the 0-based offset, -1 when absent
PyFind(s, sub) == StrFind(s, sub, 1) - 1

Digits == <<"0", "1", "2", "3", "4", "5", "6", "7", "8", "9">>
IsDigit(c) == \E d \in 1..10 : Digits[d] = c
DigitVal(c) == (CHOOSE d \in 1..10 : Digits[d] = c) - 1

\* c is within the character range lo-hi of a regex class (digits only)
InRange(c, lo, hi) == IsDigit(c) /\ DigitVal(lo) <= DigitVal(c) /\ DigitVal(c) <= DigitVal(hi)

IsNumeral(s) == s # <<>> /\ \A i \in 1..Len(s) : IsDigit(s[i])

RECURSIVE NumeralVal(_)
NumeralVal(s) == IF s = <<>> THEN 0 ELSE 10 * NumeralVal(SubSeq(s, 1, Len(s) - 1)) + DigitVal(s[Len(s)])

\* int(s) succeeds
IntOk(s) == IsNumeral(s) \/ (Len(s) > 1 /\ s[1] = "-" /\ IsNumeral(Tail(s)))

\* int(s)
StrToInt(s) == IF s[1] = "-" THEN 0 - NumeralVal(Tail(s)) ELSE NumeralVal(s)

RECURSIVE NatToStr(_)
NatToStr(n) == IF n < 10 THEN <<Digits[n + 1]>> ELSE NatToStr(n \div 10) \o <<Digits[(n % 10) + 1]>>

\* str(n)
IntToStr(n) == IF n < 0 THEN <<"-">> \o NatToStr(0 - n) ELSE NatToStr(n)

-----------------------------------------------------------------------------
(* splitUSFMMarkerFromText *)

\* Python's None, kept apart from every str (the empty str included)
None == <<"None">>

DUMMY_VALUE == 999999

Min3(a, b, c) == IF a <= b /\ a <= c THEN a ELSE IF b <= c THEN b ELSE c

\* ix == -1 replaced by DUMMY_VALUE
OrDummy(ix) == IF ix = -1 THEN DUMMY_VALUE ELSE ix

\* the split once the first terminating character ix is known
SplitAtTerminator(lineAfterLeadingBackslash, ixSP, ixAS, ixBS, ix) ==
    IF ix = DUMMY_VALUE THEN <<lineAfterLeadingBackslash, <<>>>>
    ELSE IF ix = ixBS
         THEN IF Len(lineAfterLeadingBackslash) > ixBS + 1
                 /\ lineAfterLeadingBackslash[ixBS + 2] = "*"
              THEN <<Take(lineAfterLeadingBackslash, ixBS + 2),
                     Drop(lineAfterLeadingBackslash, ixBS + 2)>>
              ELSE <<Take(lineAfterLeadingBackslash, ixBS),
                     Drop(lineAfterLeadingBackslash, ixBS)>>
    ELSE IF ix = ixAS
         THEN <<Take(lineAfterLeadingBackslash, ixAS + 1),
                Drop(lineAfterLeadingBackslash, ixAS + 1)>>
    ELSE <<Take(lineAfterLeadingBackslash, ixSP),
           Drop(lineAfterLeadingBackslash, ixSP + 1)>>

SplitAtFirstOf(lineAfterLeadingBackslash, ixSP, ixAS, ixBS) ==
    SplitAtTerminator(lineAfterLeadingBackslash, ixSP, ixAS, ixBS, Min3(ixSP, ixAS, ixBS))

SplitAfterBackslash(lineAfterLeadingBackslash) ==
    SplitAtFirstOf(lineAfterLeadingBackslash,
                   OrDummy(PyFind(lineAfterLeadingBackslash, <<SP>>)),
                   OrDummy(PyFind(lineAfterLeadingBackslash, <<"*">>)),
                   OrDummy(PyFind(lineAfterLeadingBackslash, <<BS>>)))

\* returns <<marker, text>>
splitUSFMMarkerFromText(line) ==
    IF line = <<>> THEN <<None, <<>>>>
    ELSE IF line[1] # BS THEN <<None, line>>
    ELSE SplitAfterBackslash(Drop(line, 1))

-----------------------------------------------------------------------------
(* EditCommand: the fields the engine reads.  tags is the set of the        *)
(* characters of the tags column; the include/exclude lists are sets, as   *)
(* the engine only tests membership and emptiness.                         *)

EditCommand(tags, iBooks, eBooks, iMarkers, eMarkers, iRefs, eRefs, preText, searchText, postText, replaceText) ==
    [tags |-> tags, iBooks |-> iBooks, eBooks |-> eBooks,
     iMarkers |-> iMarkers, eMarkers |-> eMarkers, iRefs |-> iRefs, eRefs |-> eRefs,
     preText |-> preText, searchText |-> searchText, postText |-> postText,
     replaceText |-> replaceText]

NoCommand == EditCommand({}, {}, {}, {}, {}, {}, {}, <<>>, <<>>, <<>>, <<>>)

-----------------------------------------------------------------------------
(* executeEditChunkCommand: the plain replacer *)

STANDARD_DISTANCE == 2500

AddOpen == <<BS, "a", "d", "d", SP>>
AddClose == <<BS, "a", "d", "d", "*">>

\* the end (exclusive, 1-based) of the shortest match of  \\add .+?\\add[*]
\* starting at i, 0 if there is none; '.' does not match a newline
AddSpanEnd(s, i) ==
    LET ends == {j \in (i + Len(AddOpen) + 1)..Len(s) :
                    /\ StartsWithAt(s, AddClose, j)
                    /\ \A k \in (i + Len(AddOpen))..(j - 1) : s[k] # NL}
    IN  IF ~StartsWithAt(s, AddOpen, i) \/ ends = {} THEN 0
        ELSE (CHOOSE j \in ends : \A k \in ends : j <= k) + Len(AddClose)

RECURSIVE StripAddFrom(_, _)
StripAddFrom(s, i) ==
    IF i > Len(s) THEN <<>>
    ELSE IF AddSpanEnd(s, i) # 0 THEN StripAddFrom(s, AddSpanEnd(s, i))
    ELSE <<s[i]>> \o StripAddFrom(s, i + 1)

\* the short form of a long/short replacement
shortReplaceText(replaceText) ==
    IF Contains(replaceText, <<"/">>) THEN StrSplit(replaceText, <<"/">>)[1]
    ELSE StripAddFrom(replaceText, 1)

\* the offsets (0-based) of the occurrences collected by the find loop
RECURSIVE FindIndexes(_, _, _)
FindIndexes(s, sub, startIndex) ==
    CHOOSE r \in {IF index = -1 THEN <<>>
                  ELSE <<index>> \o FindIndexes(s, sub, index + Len(sub)) :
                  index \in {StrFind(s, sub, startIndex + 1) - 1}} : TRUE

\* (a test that wants more than the standard distance)
FarEnoughStrict(distance) == distance > STANDARD_DISTANCE

\* it's time to do another full replace
FarEnough(distance) == distance >= STANDARD_DISTANCE

\* (one pass that adds the length delta of the full replaceText whichever
\* form it substituted)
DistanceStepOneDelta(cmd, short, index, st) ==
    IF st.kind # "ok" THEN st
    ELSE IF index + st.offset < 0
            \/ ~StartsWithAt(st.text, cmd.searchText, index + st.offset + 1)
    THEN [st EXCEPT !.kind = "AssertionError"]
    ELSE IF FarEnough(index - st.lastFullReplaceIndex)
    THEN [st EXCEPT !.text = Take(st.text, index + st.offset) \o cmd.replaceText
                              \o Drop(st.text, index + st.offset + Len(cmd.searchText)),
                    !.offset = st.offset + Len(cmd.replaceText) - Len(cmd.searchText),
                    !.lastFullReplaceIndex = index,
                    !.numFullReplacesDone = st.numFullReplacesDone + 1]
    ELSE [st EXCEPT !.text = Take(st.text, index + st.offset) \o short
                              \o Drop(st.text, index + st.offset + Len(cmd.searchText)),
                    !.offset = st.offset + Len(cmd.replaceText) - Len(cmd.searchText),
                    !.numShortReplacesDone = st.numShortReplacesDone + 1]

\* the locals after one pass of the for loop over indexes[1:]
DistanceStep(cmd, short, index, st) ==
    IF st.kind # "ok" THEN st
    ELSE IF index + st.offset < 0
            \/ ~StartsWithAt(st.text, cmd.searchText, index + st.offset + 1)
    THEN [st EXCEPT !.kind = "AssertionError"]
    ELSE IF FarEnough(index - st.lastFullReplaceIndex)
    THEN [st EXCEPT !.text = Take(st.text, index + st.offset) \o cmd.replaceText
                              \o Drop(st.text, index + st.offset + Len(cmd.searchText)),
                    !.offset = st.offset + Len(cmd.replaceText) - Len(cmd.searchText),
                    !.lastFullReplaceIndex = index,
                    !.numFullReplacesDone = st.numFullReplacesDone + 1]
    ELSE [st EXCEPT !.text = Take(st.text, index + st.offset) \o short
                              \o Drop(st.text, index + st.offset + Len(cmd.searchText)),
                    !.offset = st.offset + Len(short) - Len(cmd.searchText),
                    !.numShortReplacesDone = st.numShortReplacesDone + 1]

\* the for loop over indexes[1:]; st holds its locals
RECURSIVE DistanceLoop(_, _, _, _, _)
DistanceLoop(cmd, short, indexes, jj, st) ==
    IF jj > Len(indexes) THEN st
    ELSE CHOOSE r \in {DistanceLoop(cmd, short, indexes, jj + 1, next) :
                       next \in {DistanceStep(cmd, short, indexes[jj], st)}} : TRUE

\* the branch once the occurrences are collected
DistanceFound(text, cmd, sourceCount, indexes) ==
    IF Len(indexes) # sourceCount THEN [kind |-> "AssertionError", text |-> text]
    ELSE CHOOSE r \in
           {IF st.kind = "ok" /\ st.numFullReplacesDone + st.numShortReplacesDone # sourceCount
            THEN [kind |-> "AssertionError", text |-> st.text]
            ELSE [kind |-> st.kind, text |-> st.text] :
            st \in {DistanceLoop(cmd, shortReplaceText(cmd.replaceText), indexes, 2,
                      [kind |-> "ok",
                       text |-> StrReplaceN(text, cmd.searchText, cmd.replaceText, 1),
                       offset |-> Len(cmd.replaceText) - Len(cmd.searchText),
                       lastFullReplaceIndex |-> indexes[1],
                       numFullReplacesDone |-> 1, numShortReplacesDone |-> 0])}} : TRUE

\* the 'd' branch; kind is "ok", the exception raised, or "hang" for the
\* find loop that never advances on an empty searchText
DistanceReplace(text, cmd, sourceCount) ==
    IF "l" \in cmd.tags THEN [kind |-> "AssertionError", text |-> text]
    ELSE IF ~(Contains(cmd.replaceText, <<"/">>) \/ Contains(cmd.replaceText, AddOpen))
    THEN [kind |-> "AssertionError", text |-> text]
    ELSE IF cmd.searchText = <<>> THEN [kind |-> "hang", text |-> text]
    ELSE CHOOSE r \in {DistanceFound(text, cmd, sourceCount, indexes) :
                       indexes \in {FindIndexes(text, cmd.searchText, 0)}} : TRUE

\* the assertion that opens the plain replacer
PlainPrecondition(cmd) == cmd.preText = <<>> /\ cmd.postText = <<>> /\ "w" \notin cmd.tags

\* the distance policy applies
UsesDistance(text, cmd, sourceCount) ==
    "d" \in cmd.tags /\ sourceCount > 1 /\ Len(text) > STANDARD_DISTANCE

\* a guard that trips only when the count grows
LoopGuardTripsOnGrowth(newCount, lastCount) == newCount > lastCount

\* the test that ends the 'l' loop with the critical log
LoopGuardTrips(newCount, lastCount) == newCount >= lastCount

-----------------------------------------------------------------------------
(* Python's re, for the patterns the engine builds: literals, '.', the     *)
(* escapes \\ and \b, classes [x-y] with an optional {m,n}, capturing      *)
(* groups, lookarounds (?<=..) (?<!..) (?=..) (?!..) and top-level '|'.    *)

Letters == {"a", "b", "c", "d", "e", "g", "n", "o", "r", "t", "w", "x", "y", "G", "E"}

\* \w
IsWordChar(c) == c \in Letters \/ IsDigit(c) \/ c = "_"

\* the index of the ')' closing the group entered before index i, 0 if none
RECURSIVE ClosingParen(_, _, _)
ClosingParen(s, i, depth) ==
    IF i > Len(s) THEN 0
    ELSE IF s[i] = BS THEN ClosingParen(s, i + 2, depth)
    ELSE IF s[i] = "(" THEN ClosingParen(s, i + 1, depth + 1)
    ELSE IF s[i] = ")" THEN IF depth = 0 THEN i ELSE ClosingParen(s, i + 1, depth - 1)
    ELSE ClosingParen(s, i + 1, depth)

\* the index of the first backslash, parenthesis or '|' at or after index i,
\* 0 if there is none
NextSpecial(s, i) ==
    IF \E k \in i..Len(s) : s[k] \in {BS, "(", ")", "|"}
    THEN CHOOSE k \in i..Len(s) :
            /\ s[k] \in {BS, "(", ")", "|"}
            /\ \A j \in i..(k - 1) : s[j] \notin {BS, "(", ")", "|"}
    ELSE 0

\* the alternatives of a pattern: split at the '|' outside every group
RECURSIVE SplitAlternatives(_, _, _, _)
SplitAtSpecial(s, i, depth, start) ==
    IF i = 0 THEN <<From(s, start)>>
    ELSE IF s[i] = BS THEN SplitAlternatives(s, i + 2, depth, start)
    ELSE IF s[i] = "(" THEN SplitAlternatives(s, i + 1, depth + 1, start)
    ELSE IF s[i] = ")" THEN SplitAlternatives(s, i + 1, depth - 1, start)
    ELSE IF depth = 0
         THEN <<SubSeq(s, start, i - 1)>> \o SplitAlternatives(s, i + 1, depth, i + 1)
    ELSE SplitAlternatives(s, i + 1, depth, start)
SplitAlternatives(s, i, depth, start) == SplitAtSpecial(s, NextSpecial(s, i), depth, start)

ErrorNode == [t |-> "error"]

\* the nodes of one alternative
RECURSIVE ParseItems(_, _)
ParseItems(s, i) ==
    IF i > Len(s) THEN <<>>
    ELSE IF s[i] = BS
         THEN IF i = Len(s) THEN <<ErrorNode>>
              ELSE IF s[i + 1] = "b" THEN <<[t |-> "wordb"]>> \o ParseItems(s, i + 2)
              ELSE <<[t |-> "lit", c |-> s[i + 1]]>> \o ParseItems(s, i + 2)
    ELSE IF s[i] = "(" /\ i < Len(s) /\ s[i + 1] = "?"
         THEN LET kind == IF StartsWithAt(s, <<"<", "=">>, i + 2) THEN "behind"
                          ELSE IF StartsWithAt(s, <<"<", "!">>, i + 2) THEN "notbehind"
                          ELSE IF StartsWithAt(s, <<"=">>, i + 2) THEN "ahead"
                          ELSE IF StartsWithAt(s, <<"!">>, i + 2) THEN "notahead"
                          ELSE "error"
                  bodyStart == IF kind \in {"behind", "notbehind"} THEN i + 4 ELSE i + 3
                  close == ClosingParen(s, bodyStart, 0)
              IN  IF kind = "error" \/ close = 0 THEN <<ErrorNode>>
                  ELSE <<[t |-> kind, body |-> ParseItems(SubSeq(s, bodyStart, close - 1), 1)]>>
                       \o ParseItems(s, close + 1)
    ELSE IF s[i] = "(" THEN <<[t |-> "open"]>> \o ParseItems(s, i + 1)
    ELSE IF s[i] = ")" THEN <<[t |-> "close"]>> \o ParseItems(s, i + 1)
    ELSE IF s[i] = "." THEN <<[t |-> "any"]>> \o ParseItems(s, i + 1)
    ELSE IF s[i] = "["
         THEN IF i + 4 <= Len(s) /\ s[i + 2] = "-" /\ s[i + 4] = "]"
              THEN IF i + 9 <= Len(s) /\ s[i + 5] = "{" /\ s[i + 7] = "," /\ s[i + 9] = "}"
                        /\ IsDigit(s[i + 6]) /\ IsDigit(s[i + 8])
                   THEN <<[t |-> "class", lo |-> s[i + 1], hi |-> s[i + 3],
                           min |-> DigitVal(s[i + 6]), max |-> DigitVal(s[i + 8])]>>
                        \o ParseItems(s, i + 10)
                   ELSE <<[t |-> "class", lo |-> s[i + 1], hi |-> s[i + 3], min |-> 1, max |-> 1]>>
                        \o ParseItems(s, i + 5)
              ELSE <<ErrorNode>>
    ELSE <<[t |-> "lit", c |-> s[i]]>> \o ParseItems(s, i + 1)

RECURSIVE HasError(_)
HasError(nodes) ==
    \E k \in 1..Len(nodes) :
        \/ nodes[k].t = "error"
        \/ nodes[k].t \in {"behind", "notbehind", "ahead", "notahead"} /\ HasError(nodes[k].body)

\* parentheses balance: depth never negative, zero at the end
RECURSIVE Balanced(_, _, _)
Balanced(nodes, k, depth) ==
    IF k > Len(nodes) THEN depth = 0
    ELSE IF nodes[k].t = "open" THEN Balanced(nodes, k + 1, depth + 1)
    ELSE IF nodes[k].t = "close" THEN depth > 0 /\ Balanced(nodes, k + 1, depth - 1)
    ELSE Balanced(nodes, k + 1, depth)

\* the width of a lookbehind body, -1 when it is not fixed
RECURSIVE FixedWidth(_)
FixedWidth(nodes) ==
    IF nodes = <<>> THEN 0
    ELSE LET rest == FixedWidth(Tail(nodes))
             n == nodes[1]
             w == IF n.t \in {"lit", "any"} THEN 1
                  ELSE IF n.t = "class" THEN (IF n.min = n.max THEN n.min ELSE -1)
                  ELSE 0
         IN  IF rest = -1 \/ w = -1 THEN -1 ELSE w + rest

\* re.compile( pattern ): the alternatives as node lists; ok = FALSE is re.error
re_compile(pattern) ==
    LET parts == SplitAlternatives(pattern, 1, 0, 1)
        alts == [a \in 1..Len(parts) |-> ParseItems(parts[a], 1)]
        bad(nodes) ==
            \/ HasError(nodes)
            \/ ~Balanced(nodes, 1, 0)
            \/ \E k \in 1..Len(nodes) :
                  nodes[k].t \in {"behind", "notbehind"} /\ FixedWidth(nodes[k].body) = -1
    IN  [ok |-> \A a \in 1..Len(alts) : ~bad(alts[a]),
         alts |-> alts,
         groups |-> Cardinality({<<a, k>> \in (1..Len(alts)) \X (1..Len(pattern)) :
                                    k <= Len(alts[a]) /\ alts[a][k].t = "open"})]

\* \b holds before the character at index pos
WordBoundaryAt(text, pos) ==
    LET before == pos > 1 /\ pos - 1 <= Len(text) /\ IsWordChar(text[pos - 1])
        after == pos >= 1 /\ pos <= Len(text) /\ IsWordChar(text[pos])
    IN  before # after

\* how many characters from pos on lie in lo-hi, at most max
RECURSIVE RunLength(_, _, _, _, _)
RunLength(text, pos, lo, hi, max) ==
    IF max = 0 \/ pos > Len(text) \/ ~InRange(text[pos], lo, hi) THEN 0
    ELSE 1 + RunLength(text, pos + 1, lo, hi, max - 1)

\* The backtracking matcher: the index after the match of nodes[k..] started
\* at pos, 0 when there is none.  A greedy {m,n} tries the longest run first.
RECURSIVE MatchEnd(_, _, _, _)
RECURSIVE TryCounts(_, _, _, _, _)
MatchEnd(nodes, k, text, pos) ==
    IF k > Len(nodes) THEN pos
    ELSE
      LET n == nodes[k]
      IN  CASE n.t = "lit" ->
                 IF pos <= Len(text) /\ text[pos] = n.c THEN MatchEnd(nodes, k + 1, text, pos + 1) ELSE 0
            [] n.t = "any" ->
                 IF pos <= Len(text) /\ text[pos] # NL THEN MatchEnd(nodes, k + 1, text, pos + 1) ELSE 0
            [] n.t = "class" ->
                 TryCounts(nodes, k, text, pos, RunLength(text, pos, n.lo, n.hi, n.max))
            [] n.t = "wordb" ->
                 IF WordBoundaryAt(text, pos) THEN MatchEnd(nodes, k + 1, text, pos) ELSE 0
            [] n.t \in {"behind", "notbehind"} ->
                 LET w == FixedWidth(n.body)
                     found == pos - w >= 1 /\ MatchEnd(n.body, 1, text, pos - w) = pos
                 IN  IF found = (n.t = "behind") THEN MatchEnd(nodes, k + 1, text, pos) ELSE 0
            [] n.t \in {"ahead", "notahead"} ->
                 LET found == MatchEnd(n.body, 1, text, pos) # 0
                 IN  IF found = (n.t = "ahead") THEN MatchEnd(nodes, k + 1, text, pos) ELSE 0
            [] OTHER -> MatchEnd(nodes, k + 1, text, pos)
TryCounts(nodes, k, text, pos, cnt) ==
    IF cnt < nodes[k].min THEN 0
    ELSE LET e == MatchEnd(nodes, k + 1, text, pos + cnt)
         IN  IF e # 0 THEN e ELSE TryCounts(nodes, k, text, pos, cnt - 1)

\* the first alternative that matches at pos: the index after its match, 0 if none
RECURSIVE MatchAltsAt(_, _, _, _)
MatchAltsAt(alts, a, text, pos) ==
    IF a > Len(alts) THEN 0
    ELSE LET e == MatchEnd(alts[a], 1, text, pos)
         IN  IF e # 0 THEN e ELSE MatchAltsAt(alts, a + 1, text, pos)

NoMatch == [start |-> 0, end |-> 0]

\* compiled.search( text, pos ): the leftmost match starting at index >= start;
\* start and end are 1-based, end exclusive; NoMatch for Python's None
RECURSIVE re_search(_, _, _)
re_search(compiled, text, start) ==
    IF start > Len(text) + 1 THEN NoMatch
    ELSE LET e == MatchAltsAt(compiled.alts, 1, text, start)
         IN  IF e # 0 THEN [start |-> start, end |-> e]
             ELSE re_search(compiled, text, start + 1)

\* the replacement template as re expands it: \\ yields one backslash
RECURSIVE ExpandTemplate(_)
ExpandTemplate(t) ==
    IF t = <<>> THEN <<>>
    ELSE IF t[1] = BS /\ Len(t) >= 2 THEN <<t[2]>> \o ExpandTemplate(SubSeq(t, 3, Len(t)))
    ELSE <<t[1]>> \o ExpandTemplate(Tail(t))

\* compiled.subn( repl, text ) for matches that are never empty:
\* <<new text, number of replacements>>
RECURSIVE re_subn_from(_, _, _, _)
re_subn_from(compiled, repl, text, pos) ==
    LET m == re_search(compiled, text, pos)
    IN  IF m = NoMatch THEN <<From(text, pos), 0>>
        ELSE LET rest == re_subn_from(compiled, repl, text, m.end)
             IN  <<SubSeq(text, pos, m.start - 1) \o ExpandTemplate(repl) \o rest[1], 1 + rest[2]>>

re_subn(compiled, repl, text) == re_subn_from(compiled, repl, text, 1)

\* the spans of compiled.finditer( text )
RECURSIVE re_finditer(_, _, _)
re_finditer(compiled, text, pos) ==
    LET m == re_search(compiled, text, pos)
    IN  IF m = NoMatch THEN <<>> ELSE <<m>> \o re_finditer(compiled, text, m.end)

-----------------------------------------------------------------------------
(* executeRegexEditChunkCommand: the contextual regex replacer *)

escape_backslash(regex) == StrReplace(regex, <<BS>>, <<BS, BS>>)

wordLinkRegexString ==
    <<BrokenPipe, "[", "1", "-", "9", "]", "[", "0", "-", "9", "]", "{", "0", ",", "5", "}">>

wordLinkRegex == re_compile(wordLinkRegexString)

\* BibleOrgSysGlobals.commandLineArguments.flagReplacements (the -f option)
flagReplacements == FALSE

UnderscoreAlternative == <<"|", "(", "?", "<", "=", "_", ")">>

\* the capturing group built from searchText
SearchGroup(cmd) ==
    IF StrCount(cmd.searchText, <<BrokenPipe>>) > 0
    THEN <<"(">> \o escape_backslash(StrReplace(cmd.searchText, <<BrokenPipe>>, wordLinkRegexString)) \o <<")">>
    ELSE <<"(">> \o escape_backslash(cmd.searchText) \o <<")">>

\* the leading context: preText, else the word break of the w tag
WithLeadingContext(cmd, group) ==
    IF cmd.preText # <<>> THEN <<"(", "?">> \o escape_backslash(cmd.preText) \o <<")">> \o group
    ELSE IF "w" \in cmd.tags THEN <<BS, "b">> \o group \o UnderscoreAlternative \o group
    ELSE group

\* the trailing context: postText, else the word break of the w tag;
\* kind is "AssertionError" when the split does not give two bits
WithTrailingContext(cmd, str) ==
    IF cmd.postText # <<>>
    THEN [kind |-> "ok", str |-> str \o <<"(", "?">> \o escape_backslash(cmd.postText) \o <<")">>]
    ELSE IF "w" \in cmd.tags
    THEN IF Contains(str, UnderscoreAlternative)
         THEN LET bits == StrSplit(str, UnderscoreAlternative)
              IN  IF Len(bits) # 2 THEN [kind |-> "AssertionError", str |-> str]
                  ELSE [kind |-> "ok",
                        str |-> StrJoin(UnderscoreAlternative,
                                        [b \in 1..2 |-> bits[b] \o <<BS, "b">>])]
         ELSE [kind |-> "ok", str |-> str \o <<BS, "b">>]
    ELSE [kind |-> "ok", str |-> str]

\* myRegexSearchString as it is handed to re.compile
myRegexSearchString(cmd) == WithTrailingContext(cmd, WithLeadingContext(cmd, SearchGroup(cmd)))

\* myRegexReplaceString before the loops
RegexReplaceString(cmd) ==
    IF flagReplacements
    THEN <<"R", "x", "-">> \o escape_backslash(cmd.replaceText) \o <<"-", "R", "x">>
    ELSE escape_backslash(cmd.replaceText)

\* the loop of global substitutions goes on
SubnLoopContinues(numReplacements, cmd) == ~(numReplacements = 0 \/ "l" \notin cmd.tags)

\* a < b for Python str comparison (digit strings)
RECURSIVE StrLess(_, _)
StrLess(a, b) ==
    IF b = <<>> THEN FALSE
    ELSE IF a = <<>> THEN TRUE
    ELSE IF a[1] # b[1] THEN DigitVal(a[1]) < DigitVal(b[1])
    ELSE StrLess(Tail(a), Tail(b))

\* sorted( set of str )
RECURSIVE Sorted(_)
Sorted(S) ==
    IF S = {} THEN <<>>
    ELSE LET least == CHOOSE a \in S : \A b \in S \ {a} : StrLess(a, b)
         IN  <<least>> \o Sorted(S \ {least})

\* the word-link numbers of a matched span, in order of appearance
wordLinkNumberStringsList(wordOrWordsWithNumbers) ==
    LET ms == re_finditer(wordLinkRegex, wordOrWordsWithNumbers, 1)
    IN  [k \in 1..Len(ms) |-> SubSeq(wordOrWordsWithNumbers, ms[k].start + 1, ms[k].end - 1)]

\* the template with one number put after every broken pipe, the doubled
\* backslashes made single again
SubstituteOneNumber(originalMyRegexReplaceString, wordLinkNumberStr) ==
    StrReplace(StrReplace(originalMyRegexReplaceString, <<BrokenPipe>>,
                          <<BrokenPipe>> \o wordLinkNumberStr),
               <<BS, BS>>, <<BS>>)

\* the branch for differing numbers: word by word, zipped with the sorted set
SubstituteByWord(regexSearchString, originalMyRegexReplaceString, wordOrWordsWithNumbers, ordered) ==
    LET searchWords == StrSplit(regexSearchString, <<SP>>)
        replaceWords == StrSplit(originalMyRegexReplaceString, <<SP>>)
        foundWords == StrSplit(wordOrWordsWithNumbers, <<SP>>)
        numWords == Len(searchWords)
    IN  IF numWords < 2 THEN [kind |-> "AssertionError", str |-> <<>>]
        ELSE IF ~(numWords = Len(replaceWords) /\ Len(replaceWords) = Len(foundWords)
                  /\ Len(foundWords) = Len(ordered))
        THEN [kind |-> "AssertionError", str |-> <<>>]
        ELSE IF \E k \in 1..numWords :
                    \/ ~Contains(foundWords[k], ordered[k])
                    \/ ~Contains(foundWords[k], <<BrokenPipe>>)
                    \/ ~Contains(replaceWords[k], <<BrokenPipe>>)
        THEN [kind |-> "AssertionError", str |-> <<>>]
        ELSE [kind |-> "ok",
              str |-> StrJoin(<<SP>>,
                        [k \in 1..numWords |->
                            StrReplace(replaceWords[k], <<BrokenPipe>>,
                                       <<BrokenPipe>> \o ordered[k])])]

\* (a variant that puts in a replacement without a marker as it stands)
WordLinkReplacementForLenient(cmd, regexSearchString, originalMyRegexReplaceString, currentReplaceString, wordOrWordsWithNumbers, numbers) ==
    IF StrCount(currentReplaceString, <<BrokenPipe>>) = 0 \/ numbers = <<>>
    THEN [kind |-> "ok", str |-> currentReplaceString]
    ELSE [kind |-> "ok", str |-> SubstituteOneNumber(originalMyRegexReplaceString, numbers[1])]

\* the literal replacement of one word-link match, given the numbers found
\* in it: kind "ok" with the new myRegexReplaceString, or the exception raised
WordLinkReplacementFor(cmd, regexSearchString, originalMyRegexReplaceString, currentReplaceString, wordOrWordsWithNumbers, numbers) ==
    IF StrCount(currentReplaceString, <<BrokenPipe>>) = 0
    THEN [kind |-> "NameError", str |-> currentReplaceString]
    ELSE IF StrCount(cmd.searchText, <<BrokenPipe>>) = 1
    THEN IF numbers = <<>> THEN [kind |-> "AttributeError", str |-> currentReplaceString]
         ELSE [kind |-> "ok", str |-> SubstituteOneNumber(originalMyRegexReplaceString, numbers[1])]
    ELSE IF Cardinality({numbers[k] : k \in 1..Len(numbers)}) = 1
    THEN [kind |-> "ok", str |-> SubstituteOneNumber(originalMyRegexReplaceString, numbers[1])]
    ELSE SubstituteByWord(regexSearchString, originalMyRegexReplaceString,
                          wordOrWordsWithNumbers,
                          Sorted({numbers[k] : k \in 1..Len(numbers)}))

\* (a variant that fills in the replacement of the previous match, not the
\* original template)
WordLinkReplacementStale(cmd, regexSearchString, originalMyRegexReplaceString, currentReplaceString, wordOrWordsWithNumbers) ==
    WordLinkReplacementFor(cmd, regexSearchString, currentReplaceString,
                           currentReplaceString, wordOrWordsWithNumbers,
                           wordLinkNumberStringsList(wordOrWordsWithNumbers))

\* the replacement of one word-link match (lines 679-737)
WordLinkReplacement(cmd, regexSearchString, originalMyRegexReplaceString, currentReplaceString, wordOrWordsWithNumbers) ==
    WordLinkReplacementFor(cmd, regexSearchString, originalMyRegexReplaceString,
                           currentReplaceString, wordOrWordsWithNumbers,
                           wordLinkNumberStringsList(wordOrWordsWithNumbers))

-----------------------------------------------------------------------------
(* The replacers as state machines.  A replacer is entered with command    *)
(* and chunk.inputText set and pc at its name; it ends at pc = "return"    *)
(* with the returned text in chunk.adjustedText, or at pc = "raised".      *)

\* the longest text a repeated pass of the regex 'l' loop is modelled for
MaxChunkLen == 24

NewChunk(text) ==
    [inputText |-> text, adjustedText |-> text, lastCount |-> 0, passes |-> 0,
     searchStartIndex |-> 0, numReplacements |-> 0, myRegexReplaceString |-> <<>>]

Raise(name) == pc' = "raised" /\ exc' = name

\* the end of the distance branch
PlainAfterDistance(r) ==
    /\ chunk' = [chunk EXCEPT !.adjustedText = r.text]
    /\ pc' = IF r.kind = "ok" THEN "return" ELSE IF r.kind = "hang" THEN "hang" ELSE "raised"
    /\ exc' = IF r.kind \in {"ok", "hang"} THEN exc ELSE r.kind
    /\ UNCHANGED log

\* after the first global replace
PlainAfterReplace(replaced) ==
    /\ chunk' = [chunk EXCEPT !.adjustedText = replaced,
                              !.lastCount = StrCount(replaced, command.searchText),
                              !.passes = 1]
    /\ pc' = IF "l" \in command.tags THEN "plainLoop" ELSE "return"
    /\ UNCHANGED <<exc, log>>

PlainCounted(text, sourceCount) ==
    IF sourceCount = 0
    THEN pc' = "return" /\ UNCHANGED <<chunk, exc, log>>
    ELSE IF UsesDistance(text, command, sourceCount)
    THEN \E r \in {DistanceReplace(text, command, sourceCount)} : PlainAfterDistance(r)
    ELSE \E replaced \in {StrReplace(text, command.searchText, command.replaceText)} :
            PlainAfterReplace(replaced)

\* executeEditChunkCommand up to the 'l' loop
PlainEnter ==
    /\ pc = "executeEditChunkCommand"
    /\ UNCHANGED <<calls, BBB, commandTables, inputText, appliedText, tableIx, adjustedText,
                   cmdIx, scan, command, caller>>
    /\ IF ~PlainPrecondition(command)
       THEN Raise("AssertionError") /\ UNCHANGED <<chunk, log>>
       ELSE \E sourceCount \in {StrCount(chunk.inputText, command.searchText)} :
               PlainCounted(chunk.inputText, sourceCount)

\* the body of the 'l' loop after its replace
PlainLoopBody(replaced, newCount) ==
    IF LoopGuardTrips(newCount, chunk.lastCount)
    THEN /\ chunk' = [chunk EXCEPT !.adjustedText = replaced, !.passes = @ + 1]
         /\ log' = [log EXCEPT !.aborted = TRUE]
         /\ pc' = "return"
    ELSE /\ chunk' = [chunk EXCEPT !.adjustedText = replaced, !.lastCount = newCount,
                                   !.passes = @ + 1]
         /\ pc' = "plainLoop"
         /\ UNCHANGED log

PlainLoopReplaced(replaced) ==
    \E newCount \in {StrCount(replaced, command.searchText)} : PlainLoopBody(replaced, newCount)

\* one evaluation of the 'l' loop: its test and, if it holds, its body
PlainLoop ==
    /\ pc = "plainLoop"
    /\ UNCHANGED <<calls, BBB, commandTables, inputText, appliedText, tableIx, adjustedText,
                   cmdIx, scan, command, caller, exc>>
    /\ IF ~Contains(chunk.adjustedText, command.searchText)
       THEN pc' = "return" /\ UNCHANGED <<chunk, log>>
       ELSE \E replaced \in {StrReplace(chunk.adjustedText, command.searchText,
                                         command.replaceText)} :
               PlainLoopReplaced(replaced)

\* after the search string is built: compile, then choose the loop
RegexBuilt(built, replaceString) ==
    IF built.kind # "ok" THEN Raise(built.kind) /\ UNCHANGED chunk
    ELSE IF ~re_compile(built.str).ok THEN Raise("re.error") /\ UNCHANGED chunk
    ELSE IF StrCount(command.searchText, <<BrokenPipe>>) > 0
    THEN /\ chunk' = [chunk EXCEPT !.myRegexReplaceString = replaceString]
         /\ pc' = "wordLinkLoop"
         /\ exc' = exc
    ELSE IF Contains(replaceString, <<BrokenPipe>>)
    THEN Raise("AssertionError") /\ UNCHANGED chunk
    ELSE /\ chunk' = [chunk EXCEPT !.myRegexReplaceString = replaceString]
         /\ pc' = "subnLoop"
         /\ exc' = exc

\* executeRegexEditChunkCommand up to its loops
RegexEnter ==
    /\ pc = "executeRegexEditChunkCommand"
    /\ UNCHANGED <<calls, BBB, commandTables, inputText, appliedText, tableIx, adjustedText,
                   cmdIx, scan, command, caller, log>>
    /\ \E built \in {myRegexSearchString(command)} :
          RegexBuilt(built, RegexReplaceString(command))

\* after one global substitution; r is <<text, numReplacements>>
RegexAfterSubn(r) ==
    /\ chunk' = [chunk EXCEPT !.adjustedText = r[1], !.numReplacements = r[2],
                              !.passes = IF @ < 2 THEN @ + 1 ELSE @]
    /\ pc' = IF SubnLoopContinues(r[2], command) THEN "subnLoop" ELSE "return"

\* one pass of the loop of global substitutions
RegexSubnPass ==
    /\ pc = "subnLoop"
    /\ chunk.passes = 0 \/ Len(chunk.adjustedText) <= MaxChunkLen
    /\ UNCHANGED <<calls, BBB, commandTables, inputText, appliedText, tableIx, adjustedText,
                   cmdIx, scan, command, caller, exc, log>>
    /\ \E r \in {re_subn(re_compile(myRegexSearchString(command).str),
                        chunk.myRegexReplaceString, chunk.adjustedText)} :
          RegexAfterSubn(r)

\* (a splice that leaves the cursor at the start of the match)
WordLinkSpliceNoAdvance(match, r) ==
    IF r.kind # "ok" THEN Raise(r.kind) /\ UNCHANGED chunk
    ELSE /\ chunk' = [chunk EXCEPT
                        !.adjustedText = SubSeq(@, 1, match.start - 1) \o r.str
                                         \o From(@, match.end),
                        !.myRegexReplaceString = r.str,
                        !.numReplacements = @ + 1,
                        !.searchStartIndex = match.start - 1]
         /\ pc' = "wordLinkLoop"
         /\ exc' = exc

\* the splice of the literal replacement r.str over the match
WordLinkSplice(match, r) ==
    IF r.kind # "ok" THEN Raise(r.kind) /\ UNCHANGED chunk
    ELSE /\ chunk' = [chunk EXCEPT
                        !.adjustedText = SubSeq(@, 1, match.start - 1) \o r.str
                                         \o From(@, match.end),
                        !.myRegexReplaceString = r.str,
                        !.numReplacements = @ + 1,
                        !.searchStartIndex = (match.start - 1) + Len(r.str)]
         /\ pc' = "wordLinkLoop"
         /\ exc' = exc

\* the loop body once the search is done
WordLinkMatched(regexSearchString, groups, match) ==
    IF match = NoMatch THEN pc' = "return" /\ UNCHANGED <<chunk, exc>>
    ELSE IF ~(groups = 1 \/ ("w" \in command.tags /\ groups = 2))
    THEN Raise("AssertionError") /\ UNCHANGED chunk
    ELSE \E r \in {WordLinkReplacement(command, regexSearchString, RegexReplaceString(command),
                                       chunk.myRegexReplaceString,
                                       SubSeq(chunk.adjustedText, match.start, match.end - 1))} :
            WordLinkSplice(match, r)

WordLinkCompiled(regexSearchString, compiled) ==
    \E match \in {re_search(compiled, chunk.adjustedText, chunk.searchStartIndex + 1)} :
        WordLinkMatched(regexSearchString, compiled.groups, match)

WordLinkSearch(regexSearchString) ==
    \E compiled \in {re_compile(regexSearchString)} :
        WordLinkCompiled(regexSearchString, compiled)

\* one iteration of the word-link loop: search, build the literal replacement, splice
WordLinkIter ==
    /\ pc = "wordLinkLoop"
    /\ UNCHANGED <<calls, BBB, commandTables, inputText, appliedText, tableIx, adjustedText,
                   cmdIx, scan, command, caller, log>>
    /\ \E regexSearchString \in {myRegexSearchString(command).str} :
          WordLinkSearch(regexSearchString)

-----------------------------------------------------------------------------
(* executeEdits and executeEditCommands *)

\* the word-link marker in searchText does not count
UsesRegexReplacerNoWordLink(cmd) ==
    \/ "w" \in cmd.tags
    \/ cmd.preText # <<>>
    \/ cmd.postText # <<>>

\* the replacer chosen for a command: TRUE for executeRegexEditChunkCommand
UsesRegexReplacer(cmd) ==
    \/ "w" \in cmd.tags
    \/ cmd.preText # <<>>
    \/ cmd.postText # <<>>
    \/ Contains(cmd.searchText, <<BrokenPipe>>)

editFunction(cmd) ==
    IF UsesRegexReplacer(cmd) THEN "executeRegexEditChunkCommand" ELSE "executeEditChunkCommand"

\* no marker or reference filter: the USFM structure does not matter
IsUnstructured(cmd) ==
    cmd.iMarkers = {} /\ cmd.eMarkers = {} /\ cmd.iRefs = {} /\ cmd.eRefs = {}

\* a str or None is truthy
Truthy(x) == x # None /\ x # <<>>

\* the locals of the structured loop; handed is a ghost: the line of this
\* iteration was handed to the replacer
NoScan ==
    [lines |-> <<>>, lineNumber |-> 0, newLines |-> <<>>, C |-> <<>>, V |-> <<>>,
     lastMarker |-> None, line |-> <<>>, marker |-> None, effectiveMarker |-> None,
     handed |-> FALSE]

\* the ghost record of one command: the text it was given, how its scope
\* was decided ("skipped", "unstructured", "structured", or "AssertionError"
\* when the book asserts fail), the texts handed to the replacer, the text
\* it left
TraceEntry(t, c, text, mode) ==
    [table |-> t, cmd |-> c, in |-> text, mode |-> mode, calls |-> <<>>,
     finished |-> FALSE, out |-> <<>>]

Finish(trace, text) ==
    [trace EXCEPT ![Len(trace)] = [@ EXCEPT !.finished = TRUE, !.out = text]]

Called(trace, text) ==
    [trace EXCEPT ![Len(trace)] = [@ EXCEPT !.calls = Append(@, text)]]

\* every table is given the original text
TableInputOriginal(applied, original) == original

\* the text executeEdits hands to executeEditCommands for a table
TableInput(applied, original) == applied

\* executeEdits: the next table is handed to executeEditCommands
NextTable ==
    /\ pc = "executeEdits"
    /\ tableIx <= Len(commandTables)
    /\ adjustedText' = TableInput(appliedText, inputText)
    /\ cmdIx' = 1
    /\ pc' = "executeEditCommands"
    /\ UNCHANGED <<calls, BBB, commandTables, inputText, exc, appliedText, tableIx, scan,
                   command, chunk, caller, log>>

\* executeEdits: return appliedText
ReturnAppliedText ==
    /\ pc = "executeEdits"
    /\ tableIx > Len(commandTables)
    /\ pc' = "done"
    /\ UNCHANGED <<calls, BBB, commandTables, inputText, exc, appliedText, tableIx, adjustedText,
                   cmdIx, scan, command, chunk, caller, log>>

\* executeEditCommands: return adjustedText, which executeEdits assigns
ReturnAdjustedText ==
    /\ pc = "executeEditCommands"
    /\ cmdIx > Len(commandTables[tableIx])
    /\ appliedText' = adjustedText
    /\ tableIx' = tableIx + 1
    /\ pc' = "executeEdits"
    /\ UNCHANGED <<calls, BBB, commandTables, inputText, exc, adjustedText, cmdIx, scan,
                   command, chunk, caller, log>>

\* (a loop head that also skips a book that a non-empty includeBooks does
\* not name)
BeginCommandRestricting ==
    /\ pc = "executeEditCommands"
    /\ cmdIx <= Len(commandTables[tableIx])
    /\ UNCHANGED <<calls, BBB, commandTables, inputText, appliedText, tableIx, adjustedText>>
    /\ LET cmd == commandTables[tableIx][cmdIx]
       IN  IF BBB \in cmd.iBooks /\ BBB \in cmd.eBooks
           THEN /\ Raise("AssertionError")
                /\ log' = [log EXCEPT !.trace =
                             Append(@, TraceEntry(tableIx, cmdIx, adjustedText, "AssertionError"))]
                /\ UNCHANGED <<cmdIx, scan, command, chunk, caller>>
           ELSE IF BBB \in cmd.eBooks \/ (cmd.iBooks # {} /\ BBB \notin cmd.iBooks)
           THEN /\ cmdIx' = cmdIx + 1
                /\ log' = [log EXCEPT !.trace =
                             Finish(Append(@, TraceEntry(tableIx, cmdIx, adjustedText, "skipped")),
                                    adjustedText)]
                /\ UNCHANGED <<pc, exc, scan, command, chunk, caller>>
           ELSE IF IsUnstructured(cmd)
           THEN /\ command' = cmd
                /\ chunk' = NewChunk(adjustedText)
                /\ caller' = "unstructured"
                /\ pc' = editFunction(cmd)
                /\ log' = [log EXCEPT !.trace =
                             Called(Append(@, TraceEntry(tableIx, cmdIx, adjustedText, "unstructured")),
                                    adjustedText)]
                /\ UNCHANGED <<exc, cmdIx, scan>>
           ELSE /\ command' = cmd
                /\ scan' = [NoScan EXCEPT !.lines = StrSplit(adjustedText, <<NL>>),
                                          !.C = <<"-", "1">>, !.V = <<"-", "1">>]
                /\ pc' = "scan"
                /\ log' = [log EXCEPT !.trace =
                             Append(@, TraceEntry(tableIx, cmdIx, adjustedText, "structured"))]
                /\ UNCHANGED <<exc, cmdIx, chunk, caller>>

\* executeEditCommands: the head of the loop body for the next command
BeginCommand ==
    /\ pc = "executeEditCommands"
    /\ cmdIx <= Len(commandTables[tableIx])
    /\ UNCHANGED <<calls, BBB, commandTables, inputText, appliedText, tableIx, adjustedText>>
    /\ LET cmd == commandTables[tableIx][cmdIx]
       IN  IF BBB \in cmd.iBooks /\ BBB \in cmd.eBooks
           THEN /\ Raise("AssertionError")
                /\ log' = [log EXCEPT !.trace =
                             Append(@, TraceEntry(tableIx, cmdIx, adjustedText, "AssertionError"))]
                /\ UNCHANGED <<cmdIx, scan, command, chunk, caller>>
           ELSE IF BBB \in cmd.eBooks
           THEN /\ cmdIx' = cmdIx + 1
                /\ log' = [log EXCEPT !.trace =
                             Finish(Append(@, TraceEntry(tableIx, cmdIx, adjustedText, "skipped")),
                                    adjustedText)]
                /\ UNCHANGED <<pc, exc, scan, command, chunk, caller>>
           ELSE IF IsUnstructured(cmd)
           THEN /\ command' = cmd
                /\ chunk' = NewChunk(adjustedText)
                /\ caller' = "unstructured"
                /\ pc' = editFunction(cmd)
                /\ log' = [log EXCEPT !.trace =
                             Called(Append(@, TraceEntry(tableIx, cmdIx, adjustedText, "unstructured")),
                                    adjustedText)]
                /\ UNCHANGED <<exc, cmdIx, scan>>
           ELSE /\ command' = cmd
                /\ scan' = [NoScan EXCEPT !.lines = StrSplit(adjustedText, <<NL>>),
                                          !.C = <<"-", "1">>, !.V = <<"-", "1">>]
                /\ pc' = "scan"
                /\ log' = [log EXCEPT !.trace =
                             Append(@, TraceEntry(tableIx, cmdIx, adjustedText, "structured"))]
                /\ UNCHANGED <<exc, cmdIx, chunk, caller>>

\* the line is skipped by the marker filter: "excluded", "notIncluded" or ""
MarkerFilter(effectiveMarker, cmd) ==
    IF ~Truthy(effectiveMarker) THEN ""
    ELSE IF effectiveMarker \in cmd.eMarkers THEN "excluded"
    ELSE IF cmd.iMarkers # {} /\ effectiveMarker \notin cmd.iMarkers THEN "notIncluded"
    ELSE ""

CVRefOf(C, V) == C \o <<":">> \o V
BCVRefOf(book, C, V) == book \o <<"_">> \o C \o <<":">> \o V

\* the line is skipped by the reference filter: "CV", "BCV", "notIncluded" or ""
RefFilter(CVRef, BCVRef, cmd) ==
    IF CVRef \in cmd.eRefs THEN "CV"
    ELSE IF BCVRef \in cmd.eRefs THEN "BCV"
    ELSE IF cmd.iRefs # {} /\ CVRef \notin cmd.iRefs /\ BCVRef \notin cmd.iRefs THEN "notIncluded"
    ELSE ""

\* the effective marker and the lastMarker kept for the next line
EffectiveMarker(lastMarker, marker) == IF marker = None THEN lastMarker ELSE marker
NextLastMarker(lastMarker, marker) == marker

\* the line is handed to the replacer
ScanCall(seen, line) ==
    /\ scan' = [seen EXCEPT !.handed = TRUE]
    /\ chunk' = NewChunk(line)
    /\ caller' = "structured"
    /\ pc' = editFunction(command)
    /\ log' = [log EXCEPT !.trace = Called(@, line)]
    /\ exc' = exc

\* the line goes to newLines unchanged and the loop continues
ScanPass(seen, line) ==
    /\ scan' = [seen EXCEPT !.newLines = Append(@, line)]
    /\ UNCHANGED <<pc, exc, chunk, caller, log>>

\* the line goes to newLines unchanged and the undefined name halt is evaluated
ScanHalt(seen, line) ==
    /\ scan' = [seen EXCEPT !.newLines = Append(@, line)]
    /\ Raise("NameError")
    /\ UNCHANGED <<chunk, caller, log>>

ScanAssertFails(seen) ==
    /\ scan' = seen
    /\ Raise("AssertionError")
    /\ UNCHANGED <<chunk, caller, log>>

\* the filters of a non-blank line, in the order of the code
ScanFilter(seen, line, effectiveMarker, CVRef, BCVRef, markerFilter, refFilter) ==
    IF markerFilter = "excluded"
    THEN IF effectiveMarker \in command.iMarkers THEN ScanAssertFails(seen) ELSE ScanPass(seen, line)
    ELSE IF markerFilter = "notIncluded" THEN ScanHalt(seen, line)
    ELSE IF refFilter = "CV"
    THEN IF CVRef \in command.iRefs THEN ScanAssertFails(seen) ELSE ScanHalt(seen, line)
    ELSE IF refFilter = "BCV"
    THEN IF BCVRef \in command.iRefs THEN ScanAssertFails(seen) ELSE ScanPass(seen, line)
    ELSE IF refFilter = "notIncluded" THEN ScanPass(seen, line)
    ELSE ScanCall(seen, line)

ScanRefs(seen, line, effectiveMarker, CVRef, BCVRef) ==
    ScanFilter(seen, line, effectiveMarker, CVRef, BCVRef,
               MarkerFilter(effectiveMarker, command), RefFilter(CVRef, BCVRef, command))

\* the tracker after the line: C, V, the effective marker and lastMarker
ScanTracked(lineNumber, line, marker, C, V, effectiveMarker) ==
    ScanRefs([scan EXCEPT !.lineNumber = lineNumber, !.C = C, !.V = V, !.line = line,
                          !.marker = marker, !.effectiveMarker = effectiveMarker,
                          !.lastMarker = NextLastMarker(scan.lastMarker, marker),
                          !.handed = FALSE],
             line, effectiveMarker, CVRefOf(C, V), BCVRefOf(BBB, C, V))

\* the transitions of the reference tracker on the marker of the line
ScanMarked(lineNumber, V, line, marker, text) ==
    ScanTracked(lineNumber, line, marker,
                IF marker = <<"c">> THEN text ELSE scan.C,
                IF marker = <<"c">> THEN <<"0">>
                ELSE IF marker = <<"v">> THEN StrSplit(text, <<SP>>)[1]
                ELSE V,
                EffectiveMarker(scan.lastMarker, marker))

ScanSplit(lineNumber, V, line, markerAndText) ==
    ScanMarked(lineNumber, V, line, markerAndText[1], markerAndText[2])

\* the line with its carriage returns stripped: blank, or parsed
ScanStripped(lineNumber, V, line) ==
    IF line = <<>>
    THEN /\ scan' = [scan EXCEPT !.lineNumber = lineNumber, !.V = V, !.line = line,
                                 !.newLines = Append(@, line), !.handed = FALSE]
         /\ UNCHANGED <<pc, exc, chunk, caller, log>>
    ELSE ScanSplit(lineNumber, V, line, splitUSFMMarkerFromText(line))

\* executeEditCommands: one line of the structured loop
ScanLine ==
    /\ pc = "scan"
    /\ scan.lineNumber < Len(scan.lines)
    /\ UNCHANGED <<calls, BBB, commandTables, inputText, appliedText, tableIx, adjustedText,
                   cmdIx, command>>
    /\ IF scan.C = <<"-", "1">> /\ ~IntOk(scan.V)
       THEN Raise("ValueError") /\ UNCHANGED <<scan, chunk, caller, log>>
       ELSE ScanStripped(scan.lineNumber + 1,
                         IF scan.C = <<"-", "1">> THEN IntToStr(StrToInt(scan.V) + 1) ELSE scan.V,
                         RStrip(scan.lines[scan.lineNumber + 1], CR))

\* executeEditCommands: the structured loop is over, the lines are joined
EndScan ==
    /\ pc = "scan"
    /\ scan.lineNumber = Len(scan.lines)
    /\ adjustedText' = StrJoin(<<NL>>, scan.newLines)
    /\ cmdIx' = cmdIx + 1
    /\ pc' = "executeEditCommands"
    /\ log' = [log EXCEPT !.trace = Finish(@, StrJoin(<<NL>>, scan.newLines))]
    /\ scan' = NoScan
    /\ UNCHANGED <<calls, BBB, commandTables, inputText, exc, appliedText, tableIx,
                   command, chunk, caller>>

\* the replacer returns into executeEditCommands
ReturnFromReplacer ==
    /\ pc = "return"
    /\ caller \in {"unstructured", "structured"}
    /\ UNCHANGED <<calls, BBB, commandTables, inputText, exc, appliedText, tableIx, command,
                   chunk, caller>>
    /\ IF caller = "unstructured"
       THEN /\ adjustedText' = chunk.adjustedText
            /\ cmdIx' = cmdIx + 1
            /\ pc' = "executeEditCommands"
            /\ log' = [log EXCEPT !.trace = Finish(@, chunk.adjustedText)]
            /\ UNCHANGED scan
       ELSE /\ scan' = [scan EXCEPT !.newLines = Append(@, chunk.adjustedText)]
            /\ pc' = "scan"
            /\ UNCHANGED <<adjustedText, cmdIx, log>>

-----------------------------------------------------------------------------
(* Inputs *)

\* all strings over an alphabet of length lo..hi
Strings(alphabet, lo, hi) == UNION {[1..n -> alphabet] : n \in lo..hi}

\* enumerated documents have at most MaxLines lines
MaxLines == 3

GEN == <<"G", "E", "N">>
EXO == <<"E", "X", "O">>

ChapterLine == <<BS, "c", SP, "1">>
Verse1Line == <<BS, "v", SP, "1", SP, "a", "b">>
Verse2Line == <<BS, "v", SP, "2", SP, "a", "b", BrokenPipe, "2">>
ContinuationLine == <<"a", "b">>

LinePool == {ChapterLine, Verse1Line, Verse2Line, ContinuationLine}

\* documents with a blank line, a carriage return, a paragraph marker, a
\* chapter number that carries the book code, two spaces before a verse
\* number, a verse number with a letter before any chapter
CuratedDocuments ==
    { StrJoin(<<NL>>, <<ChapterLine, Verse1Line, <<>>, ContinuationLine>>),
      StrJoin(<<NL>>, <<ChapterLine, <<BS, "p">>, ContinuationLine, ContinuationLine>>),
      StrJoin(<<NL>>, <<ChapterLine \o <<CR>>, Verse1Line \o <<CR>>, <<>>>>),
      StrJoin(<<NL>>, <<<<BS, "c", SP>> \o GEN \o <<"_", "1">>,
                        <<BS, "v", SP, "2", SP, "a", "b">>, Verse1Line>>),
      StrJoin(<<NL>>, <<ChapterLine, <<BS, "v", SP, SP, "2", SP, "a", "b">>>>),
      StrJoin(<<NL>>, <<<<BS, "v", SP, "1", "a", SP, "a", "b">>, ContinuationLine>>) }

Documents ==
    {StrJoin(<<NL>>, ls) : ls \in Strings(LinePool, 1, MaxLines)} \cup CuratedDocuments

Plain(tags, searchText, replaceText) ==
    EditCommand(tags, {}, {}, {}, {}, {}, {}, <<>>, searchText, <<>>, replaceText)

\* commands that rewrite "ab": their order matters
AtoB == Plain({}, <<"a">>, <<"b">>)
BtoA == Plain({}, <<"b">>, <<"a", "a">>)
WholeWord == Plain({"w"}, <<"a", "b">>, <<"b">>)
\* after BtoA the text holds "aaa": the 'l' loop needs a second pass
Looping == Plain({"l"}, <<"a", "a">>, <<"a">>)
\* the replacement holds the search text
Growing == Plain({"l"}, <<"a">>, <<"a", "a">>)
WordLink == Plain({}, <<"b", BrokenPipe>>, <<"a", BrokenPipe>>)
\* "b" after "a" becomes "c"; "a" before "b" becomes "c"
AfterA == [Plain({}, <<"b">>, <<"c">>) EXCEPT !.preText = <<"<", "=", "a">>]
BeforeB == [Plain({}, <<"a">>, <<"c">>) EXCEPT !.postText = <<"=", "b">>]

Filtered(cmd, iBooks, eBooks, iMarkers, eMarkers, iRefs, eRefs) ==
    [cmd EXCEPT !.iBooks = iBooks, !.eBooks = eBooks, !.iMarkers = iMarkers,
                !.eMarkers = eMarkers, !.iRefs = iRefs, !.eRefs = eRefs]

Ref12 == <<"1", ":", "2">>
GenRef11 == GEN \o <<"_", "1", ":", "1">>

CommandPool ==
    { AtoB, BtoA, WholeWord, Looping, Growing, WordLink, AfterA, BeforeB,
      Filtered(AtoB, {}, {GEN}, {}, {}, {}, {}),
      Filtered(AtoB, {GEN}, {GEN}, {}, {}, {}, {}),
      Filtered(AtoB, {EXO}, {}, {}, {}, {}, {}),
      Filtered(AtoB, {}, {}, {}, {<<"v">>}, {}, {}),
      Filtered(AtoB, {}, {}, {<<"v">>}, {}, {}, {}),
      Filtered(AtoB, {}, {}, {<<"v">>}, {<<"v">>}, {}, {}),
      Filtered(AtoB, {}, {}, {}, {}, {}, {Ref12}),
      Filtered(AtoB, {}, {}, {}, {}, {}, {GEN \o <<"_", "1", ":", "2">>}),
      Filtered(WholeWord, {}, {}, {}, {}, {}, {GenRef11}),
      Filtered(AtoB, {}, {}, {}, {}, {GenRef11}, {GenRef11}),
      Filtered(AtoB, {}, {}, {}, {}, {Ref12}, {Ref12}),
      Filtered(BtoA, {}, {}, {}, {}, {GenRef11}, {}),
      Filtered(WordLink, {}, {}, {<<"v">>, <<"c">>}, {}, {}, {}),
      Filtered(AtoB, {}, {GEN}, {}, {<<"p">>}, {}, {}) }

\* the commands combined two by two
PairPool == {AtoB, BtoA, Looping, Filtered(AtoB, {}, {}, {}, {<<"v">>}, {}, {})}

TableSets ==
    {<<<<c>>>> : c \in CommandPool}
    \cup {<<<<c1, c2>>>> : c1 \in PairPool, c2 \in PairPool}
    \cup {<<<<c1>>, <<c2>>>> : c1 \in PairPool, c2 \in PairPool}
    \cup {<<<<>>, <<AtoB>>>>, <<<<BtoA>>, <<>>, <<AtoB, BtoA>>>>}

NoLog == [trace |-> <<>>, aborted |-> FALSE]

-----------------------------------------------------------------------------
(* The engine entered through executeEdits *)

\* one call of executeEdits, with nothing else running
OneCall == [phase |-> "alone", running |-> 1, others |-> <<>>, alone |-> <<>>, preempted |-> {}]

Init ==
    /\ calls = OneCall
    /\ BBB \in {GEN, EXO}
    /\ commandTables \in TableSets
    /\ inputText \in Documents
    /\ pc = "executeEdits"
    /\ exc = ""
    /\ appliedText = inputText
    /\ tableIx = 1
    /\ adjustedText = <<>>
    /\ cmdIx = 0
    /\ scan = NoScan
    /\ command = NoCommand
    /\ chunk = NewChunk(<<>>)
    /\ caller = ""
    /\ log = NoLog

Next ==
    \/ NextTable
    \/ ReturnAppliedText
    \/ BeginCommand
    \/ ReturnAdjustedText
    \/ ScanLine
    \/ EndScan
    \/ ReturnFromReplacer
    \/ PlainEnter
    \/ PlainLoop
    \/ RegexEnter
    \/ RegexSubnPass
    \/ WordLinkIter

Spec == Init /\ [][Next]_vars

-----------------------------------------------------------------------------
(* Properties of executeEdits and executeEditCommands *)

RECURSIVE Flatten(_)
Flatten(seqs) == IF seqs = <<>> THEN <<>> ELSE seqs[1] \o Flatten(Tail(seqs))

\* the positions <<table, command>> of all commands, in configured order
Positions ==
    Flatten([t \in 1..Len(commandTables) |->
                [c \in 1..Len(commandTables[t]) |-> <<t, c>>]])

CommandOf(entry) == commandTables[entry.table][entry.cmd]

\* C1: the commands are begun in the order of the tables and, within a
\* table, of the list, each once; the text given to a command is the text
\* its predecessor left (the input text for the first); the text returned
\* by executeEdits is the text the last command left.
C1_FoldInOrder ==
    /\ Len(log.trace) <= Len(Positions)
    /\ \A k \in 1..Len(log.trace) :
          /\ <<log.trace[k].table, log.trace[k].cmd>> = Positions[k]
          /\ log.trace[k].in = IF k = 1 THEN inputText ELSE log.trace[k - 1].out
          /\ k > 1 => log.trace[k - 1].finished
    /\ pc = "done" =>
          /\ Len(log.trace) = Len(Positions)
          /\ \A k \in 1..Len(log.trace) : log.trace[k].finished
          /\ appliedText = IF log.trace = <<>> THEN inputText
                           ELSE log.trace[Len(log.trace)].out

\* three commands in two tables have run, each changing the text it was given
C1_Witness ==
    /\ pc = "done"
    /\ Len(commandTables) = 3
    /\ Len(log.trace) = 3
    /\ \A k \in 1..3 : log.trace[k].out # log.trace[k].in

ScopeOf(cmd) ==
    IF BBB \in cmd.eBooks THEN "skipped"
    ELSE IF cmd.iMarkers = {} /\ cmd.eMarkers = {} /\ cmd.iRefs = {} /\ cmd.eRefs = {}
    THEN "unstructured"
    ELSE "structured"

\* C2: every command that is begun has its scope decided in the order
\* excludeBooks (skipped, text unchanged, no replacer call), no marker or
\* reference filter (one replacer call on the whole text), otherwise
\* line by line (every replacer call is on one line of the text).
C2_ScopePrecedence ==
    \A k \in 1..Len(log.trace) :
        /\ log.trace[k].mode = ScopeOf(CommandOf(log.trace[k]))
        /\ log.trace[k].mode = "skipped" =>
              /\ log.trace[k].finished
              /\ log.trace[k].out = log.trace[k].in
              /\ log.trace[k].calls = <<>>
        /\ log.trace[k].mode = "unstructured" => log.trace[k].calls = <<log.trace[k].in>>
        /\ log.trace[k].mode = "structured" =>
              \A j \in 1..Len(log.trace[k].calls) :
                  \E n \in 1..Len(StrSplit(log.trace[k].in, <<NL>>)) :
                      log.trace[k].calls[j] = RStrip(StrSplit(log.trace[k].in, <<NL>>)[n], CR)

\* the line of this iteration is in newLines as it was read, the replacer
\* was not called on it and the loop goes on
LinePassedThrough ==
    /\ pc = "scan"
    /\ ~scan.handed
    /\ Len(scan.newLines) = scan.lineNumber
    /\ scan.newLines[scan.lineNumber] = scan.line

\* a non-blank line has been read by the structured loop
NonBlankLineRead == scan.lineNumber > 0 /\ scan.line # <<>>

MarkerFilteredOut ==
    \/ scan.effectiveMarker \in command.eMarkers
    \/ command.iMarkers # {} /\ scan.effectiveMarker \notin command.iMarkers

\* C3: a non-blank line whose effective marker is excluded, or is not in a
\* non-empty includeMarkers (a line without effective marker included), is
\* passed through and the scan continues.  Commands whose include and
\* exclude markers overlap are left aside.
C3_MarkerFilterPassesThrough ==
    (/\ NonBlankLineRead
     /\ command.iMarkers \cap command.eMarkers = {}
     /\ MarkerFilteredOut) => LinePassedThrough

RefFilteredOut ==
    \/ CVRefOf(scan.C, scan.V) \in command.eRefs
    \/ BCVRefOf(BBB, scan.C, scan.V) \in command.eRefs
    \/ /\ command.iRefs # {}
       /\ CVRefOf(scan.C, scan.V) \notin command.iRefs
       /\ BCVRefOf(BBB, scan.C, scan.V) \notin command.iRefs

\* C4: a non-blank line that passed the marker filter is passed through when
\* its CVRef or BCVRef is excluded or neither is in a non-empty includeRefs,
\* and is handed to the replacer otherwise.  Commands whose include and
\* exclude references overlap are left aside.
C4_RefFilterPassesThrough ==
    (/\ NonBlankLineRead
     /\ command.iRefs \cap command.eRefs = {}
     /\ ~MarkerFilteredOut) =>
        IF RefFilteredOut THEN LinePassedThrough ELSE scan.handed

\* C5: a replacer is entered, from either mode, with a command for which it
\* is the one to choose: the regex replacer exactly for 'w', preText,
\* postText or a word-link marker in searchText, the plain replacer otherwise.
C5_ReplacerSelection ==
    /\ pc = "executeRegexEditChunkCommand" =>
          \/ "w" \in command.tags
          \/ command.preText # <<>>
          \/ command.postText # <<>>
          \/ \E i \in 1..Len(command.searchText) : command.searchText[i] = BrokenPipe
    /\ pc = "executeEditChunkCommand" =>
          /\ "w" \notin command.tags
          /\ command.preText = <<>>
          /\ command.postText = <<>>
          /\ \A i \in 1..Len(command.searchText) : command.searchText[i] # BrokenPipe

\* the regex replacer is entered for a line, only because of the word-link marker
C5_Witness ==
    /\ pc = "executeRegexEditChunkCommand"
    /\ caller = "structured"
    /\ "w" \notin command.tags /\ command.preText = <<>> /\ command.postText = <<>>

-----------------------------------------------------------------------------
(* The plain replacer entered directly *)

\* texts handed directly to a replacer have at most MaxLen characters
MaxLen == 4
\* search and replace texts of the enumerated commands have at most MaxPat characters
MaxPat == 2

OldOldOld == <<"o", "l", "d", SP, "o", "l", "d", SP, "o", "l", "d">>
NewNewNew == <<"n", "e", "w", SP, "n", "e", "w", SP, "n", "e", "w">>
OldToNew == Plain({}, <<"o", "l", "d">>, <<"n", "e", "w">>)

PlainTexts == Strings({"a", "b"}, 0, MaxLen) \cup {OldOldOld}

PlainCommands ==
    {Plain(tags, searchText, replaceText) :
        tags \in {{}, {"l"}},
        searchText \in Strings({"a", "b"}, 0, MaxPat),
        replaceText \in Strings({"a", "b"}, 0, MaxPat)}
    \cup {OldToNew}

InitPlain ==
    /\ calls = OneCall
    /\ BBB = GEN
    /\ commandTables = <<>>
    /\ inputText \in PlainTexts
    /\ command \in PlainCommands
    /\ pc = "executeEditChunkCommand"
    /\ chunk = NewChunk(inputText)
    /\ caller = "direct"
    /\ exc = ""
    /\ appliedText = inputText
    /\ tableIx = 1
    /\ adjustedText = <<>>
    /\ cmdIx = 0
    /\ scan = NoScan
    /\ log = NoLog

NextPlain ==
    \/ PlainEnter
    \/ PlainLoop

SpecPlain == InitPlain /\ [][NextPlain]_vars

\* the interpreter goes on executing the replacer until it returns
SpecPlainFair == SpecPlain /\ WF_vars(NextPlain)

\* the starts of the occurrences of a non-empty search text
OccurrenceStarts(text, searchText) ==
    {i \in 1..Len(text) : StartsWithAt(text, searchText, i)}

\* the non-overlapping starts taken left to right: a start is left out
\* only when it lies inside a span that begins at a chosen start before it
LeftToRightChoice(starts, width) ==
    CHOOSE chosen \in SUBSET starts :
        /\ \A i, j \in chosen : i < j => i + width <= j
        /\ \A j \in starts \ chosen : \E i \in chosen : i < j /\ j < i + width

LeftToRightOccurrences(text, searchText) ==
    LeftToRightChoice(OccurrenceStarts(text, searchText), Len(searchText))

\* text with the chosen occurrences replaced and every other character kept
Rewritten(text, searchText, replaceText, chosen) ==
    Flatten([i \in 1..Len(text) |->
                IF i \in chosen THEN replaceText
                ELSE IF \E k \in chosen : k < i /\ i < k + Len(searchText) THEN <<>>
                ELSE <<text[i]>>])

\* the empty search text occurs before every character and at the end
RewrittenAroundEveryCharacter(text, replaceText) ==
    Flatten([i \in 1..Len(text) |-> replaceText \o <<text[i]>>]) \o replaceText

\* C6: without the l and d tags the plain replacer returns its input when
\* searchText does not occur in it, and otherwise the input with the
\* non-overlapping occurrences found left to right replaced, everything
\* else kept, as many replacements as the occurrence count.
C6_PlainBaseReplace ==
    (pc = "return" /\ command.tags = {}) =>
        IF command.searchText = <<>>
        THEN chunk.adjustedText =
                 RewrittenAroundEveryCharacter(chunk.inputText, command.replaceText)
        ELSE IF OccurrenceStarts(chunk.inputText, command.searchText) = {}
        THEN chunk.adjustedText = chunk.inputText
        ELSE /\ chunk.adjustedText =
                    Rewritten(chunk.inputText, command.searchText, command.replaceText,
                              LeftToRightOccurrences(chunk.inputText, command.searchText))
             /\ Cardinality(LeftToRightOccurrences(chunk.inputText, command.searchText))
                    = StrCount(chunk.inputText, command.searchText)
             /\ Len(chunk.adjustedText) = Len(chunk.inputText)
                    + StrCount(chunk.inputText, command.searchText)
                      * (Len(command.replaceText) - Len(command.searchText))

\* "old old old" with old -> new has become "new new new"
C6_Witness ==
    /\ pc = "return"
    /\ command = OldToNew
    /\ chunk.inputText = OldOldOld
    /\ chunk.adjustedText = NewNewNew

\* C7: with the l tag the plain replacer returns; a pass of its loop that
\* does not strictly decrease the occurrence count logs the abort and
\* returns at once, and the abort is logged by such a pass only; on return
\* searchText no longer occurs in the result or the abort was logged.
C7_LoopTerminatesGuarded ==
    /\ <>(pc = "return")
    /\ [](pc = "return" /\ "l" \in command.tags =>
              \/ ~Contains(chunk.adjustedText, command.searchText)
              \/ log.aborted)
    /\ [][pc = "plainLoop" /\ chunk'.passes = chunk.passes + 1 =>
              IF StrCount(chunk'.adjustedText, command.searchText) >= chunk.lastCount
              THEN pc' = "return" /\ log'.aborted
              ELSE pc' = "plainLoop" /\ ~log'.aborted]_vars

\* search "a", replace "aa": the loop was aborted and the replacer returned
C7_Witness ==
    /\ pc = "return"
    /\ command = Plain({"l"}, <<"a">>, <<"a", "a">>)
    /\ log.aborted
    /\ Contains(chunk.adjustedText, command.searchText)

-----------------------------------------------------------------------------
(* The contextual regex replacer entered directly *)

RegexTexts ==
    Strings({"a", "_", SP}, 0, MaxLen)
    \cup Strings({BrokenPipe, "0", "1"}, 1, MaxLen - 1)
    \cup {<<"c", "a", "t", SP, "c", "a", "t", "e", "g", "o", "r", "y">>,
          <<"a", ".">>,
          <<"a", BrokenPipe, "1", SP, "a", BrokenPipe, "2">>,
          <<"a", BrokenPipe, "1", SP, "a", BrokenPipe, "1">>,
          <<"a", BrokenPipe, "2", SP, "a", BrokenPipe, "1">>,
          <<"a", BrokenPipe, "9", SP, "a", BrokenPipe, "1", "0">>,
          <<"a", BrokenPipe, "1", "0", "0", "0", "0", "0", "0">>}

WholeWordCommands ==
    {Plain(tags, searchText, replaceText) :
        tags \in {{"w"}, {"w", "l"}},
        searchText \in Strings({"a", "."}, 1, MaxPat)
                        \cup {<<"_">>, <<"a", "_">>, <<"_", "a">>},
        replaceText \in {<<"b">>, <<"a">>, <<"a", SP, "a">>}}
    \cup {Plain({"w"}, <<"c", "a", "t">>, <<"d", "o", "g">>)}

ContextCommands ==
    {[Plain(tags, searchText, <<"b">>) EXCEPT !.preText = preText, !.postText = postText] :
        tags \in {{}, {"w"}},
        searchText \in {<<"a">>, <<".">>},
        preText \in {<<>>, <<"<", "=", "a">>, <<"<", "!", "a">>},
        postText \in {<<>>, <<"=", "a">>, <<"!", "a">>}}

WordLinkCommands ==
    {Plain(tags, searchText, replaceText) :
        tags \in {{}, {"w"}},
        searchText \in {<<BrokenPipe>>, <<"a", BrokenPipe>>, <<BrokenPipe, "1">>,
                        <<"a", BrokenPipe, SP, "a", BrokenPipe>>},
        replaceText \in {<<BrokenPipe>>, <<"b", BrokenPipe>>, <<"b">>,
                         <<"b", BrokenPipe, SP, "a", BrokenPipe>>}}
    \cup {Plain({}, searchText, replaceText) :
            searchText \in {<<"a", BrokenPipe>>, <<"a", BrokenPipe, SP, "a", BrokenPipe>>},
            replaceText \in {<<BS, "x", BrokenPipe>>,
                             <<BS, "x", BrokenPipe, SP, "a", BrokenPipe>>}}

RegexCommands ==
    {cmd \in WholeWordCommands \cup ContextCommands \cup WordLinkCommands
                \cup {Plain({"w"}, <<"(">>, <<"b">>), Plain({"w"}, <<"a", ")">>, <<"b">>)} :
        UsesRegexReplacer(cmd)}

InitRegex ==
    /\ calls = OneCall
    /\ BBB = GEN
    /\ commandTables = <<>>
    /\ inputText \in RegexTexts
    /\ command \in RegexCommands
    /\ pc = "executeRegexEditChunkCommand"
    /\ chunk = NewChunk(inputText)
    /\ caller = "direct"
    /\ exc = ""
    /\ appliedText = inputText
    /\ tableIx = 1
    /\ adjustedText = <<>>
    /\ cmdIx = 0
    /\ scan = NoScan
    /\ log = NoLog

NextRegex ==
    \/ RegexEnter
    \/ RegexSubnPass
    \/ WordLinkIter

SpecRegex == InitRegex /\ [][NextRegex]_vars

\* the number of matches the compiled search pattern finds in text
MatchCount(cmd, text) ==
    Len(re_finditer(re_compile(myRegexSearchString(cmd).str), text, 1))

\* C8: the regex replacer without word-link markers goes into another pass
\* of its 'l' loop only when the pass before strictly reduced the number
\* of matches (the progress guard of the plain replacer).
C8_RegexLoopGuarded ==
    (pc = "subnLoop" /\ chunk.passes >= 2) =>
        MatchCount(command, chunk.adjustedText) < chunk.numReplacements

\* the starts of the occurrences of searchText that stand as a whole word:
\* a word boundary or an underscore before, a word boundary after
WholeWordStarts(text, searchText) ==
    {i \in OccurrenceStarts(text, searchText) :
        /\ WordBoundaryAt(text, i) \/ (i > 1 /\ text[i - 1] = "_")
        /\ WordBoundaryAt(text, i + Len(searchText))}

\* C9: with the w tag alone the returned text is the input with the
\* whole-word occurrences of searchText replaced, left to right, and
\* everything else unchanged.
C9_WholeWordOnly ==
    (/\ pc = "return"
     /\ command.tags = {"w"}
     /\ command.preText = <<>> /\ command.postText = <<>>
     /\ ~Contains(command.searchText, <<BrokenPipe>>)) =>
        chunk.adjustedText =
            Rewritten(chunk.inputText, command.searchText, command.replaceText,
                      LeftToRightChoice(WholeWordStarts(chunk.inputText, command.searchText),
                                        Len(command.searchText)))

\* s is searchText read literally, each word-link marker standing for the
\* marker and a run of 1 to 6 digits
RECURSIVE IsLiteralInstance(_, _)
IsLiteralInstance(searchText, s) ==
    IF searchText = <<>> THEN s = <<>>
    ELSE IF s = <<>> \/ s[1] # searchText[1] THEN FALSE
    ELSE IF searchText[1] = BrokenPipe
    THEN \E n \in 1..6 :
            /\ n + 1 <= Len(s)
            /\ \A k \in 2..(n + 1) : IsDigit(s[k])
            /\ IsLiteralInstance(Tail(searchText), SubSeq(s, n + 2, Len(s)))
    ELSE IsLiteralInstance(Tail(searchText), Tail(s))

\* the capturing group matches the whole of s, a text of one line
GroupMatchesAll(cmd, s) ==
    re_search(re_compile(SearchGroup(cmd) \o <<"(", "?", "!", ".", ")">>), s, 1)
        = [start |-> 1, end |-> Len(s) + 1]

\* C10: the capturing group built from searchText compiles and matches a
\* piece of the text exactly when the piece is searchText read literally,
\* a word-link marker standing for the marker and 1 to 6 digits.
C10_SearchPatternLiteral ==
    pc # "executeRegexEditChunkCommand" =>
        /\ exc # "re.error"
        /\ \A i \in 1..Len(chunk.inputText) : \A j \in i..Len(chunk.inputText) :
              GroupMatchesAll(command, SubSeq(chunk.inputText, i, j))
                  = IsLiteralInstance(command.searchText, SubSeq(chunk.inputText, i, j))

\* the context (the preText or the postText of a command) holds at index pos
ContextHoldsAt(text, context, pos) ==
    \/ context = <<>>
    \/ MatchAltsAt(re_compile(<<"(", "?">> \o escape_backslash(context) \o <<")">>).alts,
                   1, text, pos) = pos

\* the starts of the pieces of text that the capturing group matches
GroupStarts(text, cmd) ==
    {i \in 1..(Len(text) - Len(cmd.searchText) + 1) :
        GroupMatchesAll(cmd, SubSeq(text, i, i + Len(cmd.searchText) - 1))}

\* the matches whose contexts hold: preText before, postText after, and with
\* the w tag a word break on each side that has no context text
ContextStarts(text, cmd) ==
    {i \in GroupStarts(text, cmd) :
        /\ ContextHoldsAt(text, cmd.preText, i)
        /\ ContextHoldsAt(text, cmd.postText, i + Len(cmd.searchText))
        /\ ("w" \in cmd.tags /\ cmd.preText = <<>>) =>
              (WordBoundaryAt(text, i) \/ (i > 1 /\ text[i - 1] = "_"))
        /\ ("w" \in cmd.tags /\ cmd.postText = <<>>) =>
              WordBoundaryAt(text, i + Len(cmd.searchText))}

\* C11: with preText or postText set, the regex replacer replaces exactly
\* the matches where the preText context holds just before and the postText
\* context holds just after (with the w tag, a word break on the side that
\* has no context), and every other character, the context included, is kept.
C11_ContextRespected ==
    (/\ pc = "return"
     /\ "l" \notin command.tags
     /\ ~Contains(command.searchText, <<BrokenPipe>>)
     /\ command.preText # <<>> \/ command.postText # <<>>) =>
        chunk.adjustedText =
            Rewritten(chunk.inputText, command.searchText, command.replaceText,
                      LeftToRightChoice(ContextStarts(chunk.inputText, command),
                                        Len(command.searchText)))

\* the words of a string, and the id that a word of the text carries
WordsOf(s) == StrSplit(s, <<SP>>)
IdOf(word) == Drop(word, PyFind(word, <<BrokenPipe>>) + 1)

\* the word of the text is the search word with an id after its marker
IsMarkedInstance(found, searchWord) ==
    /\ searchWord # <<>>
    /\ searchWord[Len(searchWord)] = BrokenPipe
    /\ Take(found, Len(searchWord)) = searchWord
    /\ IsNumeral(IdOf(found))
    /\ IdOf(found)[1] # "0"

\* the whole text is one match of a search of several marked words, its ids
\* are not all the same, and every word of the replacement has one marker
SeveralIdsMatched(text, cmd) ==
    /\ Len(WordsOf(cmd.searchText)) >= 2
    /\ Len(WordsOf(text)) = Len(WordsOf(cmd.searchText))
    /\ Len(WordsOf(cmd.replaceText)) = Len(WordsOf(cmd.searchText))
    /\ \A i \in 1..Len(WordsOf(text)) :
          /\ IsMarkedInstance(WordsOf(text)[i], WordsOf(cmd.searchText)[i])
          /\ StrCount(WordsOf(cmd.replaceText)[i], <<BrokenPipe>>) = 1
    /\ \E i, j \in 1..Len(WordsOf(text)) :
          IdOf(WordsOf(text)[i]) # IdOf(WordsOf(text)[j])

\* each word of the replacement, with the id of the same word of the text
IdsKeptInPlace(text, cmd) ==
    StrJoin(<<SP>>, [i \in 1..Len(WordsOf(text)) |->
                        StrReplace(WordsOf(cmd.replaceText)[i], <<BrokenPipe>>,
                                   <<BrokenPipe>> \o IdOf(WordsOf(text)[i]))])

\* C12: when a search of several marked words matches words whose ids are
\* not all the same, and the replacement has as many words, the replacer
\* returns the replacement with the id of the i-th matched word on its i-th
\* word, whatever the order and the values of the ids, with or without w.
C12_IdsKeptInPlace ==
    (/\ pc \in {"return", "raised"}
     /\ "l" \notin command.tags
     /\ command.preText = <<>> /\ command.postText = <<>>
     /\ SeveralIdsMatched(chunk.inputText, command)) =>
        /\ pc = "return"
        /\ chunk.adjustedText = IdsKeptInPlace(chunk.inputText, command)

\* the ids in a piece of text: after each marker, its run of at most six
\* digits that does not start with a zero
IdAt(text, p) ==
    LET runs == {n \in 1..6 : /\ p + n <= Len(text)
                              /\ text[p + 1] # "0"
                              /\ \A k \in 1..n : IsDigit(text[p + k])}
    IN  IF runs = {} THEN <<>>
        ELSE SubSeq(text, p + 1, p + (CHOOSE n \in runs : \A m \in runs : m <= n))
IdsIn(text) ==
    {IdAt(text, p) : p \in {q \in 1..Len(text) : text[q] = BrokenPipe}} \ {<<>>}

\* the matches of the search of a word-link command in the text
WordLinkMatches(text, cmd) ==
    re_finditer(re_compile(myRegexSearchString(cmd).str), text, 1)
MatchedText(text, m) == SubSeq(text, m.start, m.end - 1)

\* every match of the search carries one id (once, or repeated)
OneIdPerMatch(text, cmd) ==
    \A k \in 1..Len(WordLinkMatches(text, cmd)) :
        Cardinality(IdsIn(MatchedText(text, WordLinkMatches(text, cmd)[k]))) = 1

\* the text with every match replaced by the template, each marker of the
\* template followed by the id of that match
RECURSIVE OwnIdsFrom(_, _, _, _, _)
OwnIdsFrom(text, template, ms, k, from) ==
    IF k > Len(ms) THEN From(text, from)
    ELSE SubSeq(text, from, ms[k].start - 1)
         \o StrReplace(template, <<BrokenPipe>>,
                       <<BrokenPipe>> \o (CHOOSE id \in IdsIn(MatchedText(text, ms[k])) : TRUE))
         \o OwnIdsFrom(text, template, ms, k + 1, ms[k].end)
OwnIds(text, cmd) ==
    OwnIdsFrom(text, cmd.replaceText, WordLinkMatches(text, cmd), 1, 1)

\* C13: when the search has one marker, or several whose matched ids are
\* the same, the replacer returns the text with every match replaced by the
\* replacement template, each marker of the template followed by the id of
\* that very match, and the rest of the template and of the text as it was.
C13_OwnIdPerMatch ==
    (/\ pc \in {"return", "raised"}
     /\ "l" \notin command.tags
     /\ StrCount(command.searchText, <<BrokenPipe>>) >= 1
     /\ StrCount(command.replaceText, <<BrokenPipe>>) >= 1
     /\ OneIdPerMatch(chunk.inputText, command)) =>
        /\ pc = "return"
        /\ chunk.adjustedText = OwnIds(chunk.inputText, command)

\* two matches with different ids were replaced, the template having a marker
C13_Witness ==
    /\ pc = "return"
    /\ StrCount(command.searchText, <<BrokenPipe>>) = 1
    /\ StrCount(command.replaceText, <<BrokenPipe>>) >= 1
    /\ Len(WordLinkMatches(chunk.inputText, command)) >= 2
    /\ Cardinality(IdsIn(chunk.inputText)) >= 2
    /\ chunk.adjustedText = OwnIds(chunk.inputText, command)
    /\ chunk.adjustedText # chunk.inputText

\* a word-link search that matches in the text, with a replacement that has
\* no marker
MarkerDropped(text, cmd) ==
    /\ StrCount(cmd.searchText, <<BrokenPipe>>) >= 1
    /\ StrCount(cmd.replaceText, <<BrokenPipe>>) = 0
    /\ re_compile(myRegexSearchString(cmd).str).ok
    /\ WordLinkMatches(text, cmd) # <<>>

\* C14: when a word-link search matches and the replacement has no marker,
\* the replacer never returns and never changes the text at all: it ends by
\* raising an exception, the text still as it was given.
C14_MarkerlessReplacementFails ==
    MarkerDropped(chunk.inputText, command) =>
        /\ pc # "return"
        /\ chunk.adjustedText = chunk.inputText
        /\ pc = "raised" => exc = "NameError"

\* the replacer has raised on such a match
C14_Witness ==
    /\ MarkerDropped(chunk.inputText, command)
    /\ pc = "raised"
    /\ exc = "NameError"
    /\ Len(WordLinkMatches(chunk.inputText, command)) >= 2

\* the command executeEditCommands is at, and the authoring errors: the
\* book of the run both included and excluded, or the marker or the
\* reference of the line being read both included and excluded
CommandAt == commandTables[tableIx][cmdIx]
BookInBoth(cmd) == BBB \in cmd.iBooks /\ BBB \in cmd.eBooks
MarkerInBoth(cmd) == scan.effectiveMarker \in (cmd.iMarkers \cap cmd.eMarkers)
RefInBoth(cmd) ==
    {CVRefOf(scan.C, scan.V), BCVRefOf(BBB, scan.C, scan.V)} \cap (cmd.iRefs \cap cmd.eRefs) # {}

\* C15: a command with an authoring error (the book, or the marker or the
\* reference of a line, both included and excluded) never makes executeEdits
\* end in an exception: the run goes on to the other lines and commands.
C15_BadRuleNeverAborts ==
    (/\ pc = "raised"
     /\ tableIx \in 1..Len(commandTables)
     /\ cmdIx \in 1..Len(commandTables[tableIx])) =>
        ~(BookInBoth(CommandAt) \/ MarkerInBoth(CommandAt) \/ RefInBoth(CommandAt))

-----------------------------------------------------------------------------
(* The plain replacer on chunks around STANDARD_DISTANCE characters long:   *)
(* a name that occurs once or several times, filler between its            *)
(* occurrences, and commands with and without the 'd' and 'l' tags.         *)

\* a text has at most MaxGaps + 1 occurrences of the name
MaxGaps == 2

Name == <<"J">>

\* the name, then after each gap of filler characters the name again
RECURSIVE DistanceText(_)
DistanceText(gaps) ==
    IF gaps = <<>> THEN Name
    ELSE DistanceText(SubSeq(gaps, 1, Len(gaps) - 1))
         \o [i \in 1..gaps[Len(gaps)] |-> "x"] \o Name

\* gaps that put the occurrences 1, half the standard distance, one less
\* than the standard distance, and the standard distance apart; and a long
\* text with one occurrence
DistanceTexts ==
    {DistanceText(gaps) :
        gaps \in Strings({0, STANDARD_DISTANCE \div 2 - 1, STANDARD_DISTANCE - 2,
                          STANDARD_DISTANCE - 1}, 0, MaxGaps)}
    \cup {[i \in 1..STANDARD_DISTANCE |-> "x"] \o Name}

\* replacements "FF/s", "J/j", "j\add F\add*", "\add F" and "F"
DistanceCommands ==
    {Plain(tags, Name, replaceText) :
        tags \in {{"d"}, {"d", "l"}, {}, {"l"}},
        replaceText \in {<<"F", "F", "/", "s">>, <<"J", "/", "j">>,
                         <<"j">> \o AddOpen \o <<"F">> \o AddClose,
                         AddOpen \o <<"F">>, <<"F">>}}

\* a search text that overlaps itself, in texts that begin with filler or
\* with a run of the name: "xJJJ", filler, "JJJJ"; and "JJJJJ", filler
OverlappingTexts ==
    {<<"x">> \o Name \o Name \o Name \o [i \in 1..STANDARD_DISTANCE |-> "x"]
        \o Name \o Name \o Name \o Name,
     Name \o Name \o Name \o Name \o Name \o [i \in 1..STANDARD_DISTANCE |-> "x"]}

\* "JJ" replaced by "JJJ/J", by "J/JJ" and by "\add JJ\add*"
OverlappingCommands ==
    {Plain({"d"}, Name \o Name, replaceText) :
        replaceText \in {<<"J", "J", "J", "/", "J">>, <<"J", "/", "J", "J">>,
                         AddOpen \o Name \o Name \o AddClose}}

DistanceCases ==
    (DistanceTexts \X DistanceCommands) \cup (OverlappingTexts \X OverlappingCommands)

InitDistance ==
    /\ calls = OneCall
    /\ BBB = GEN
    /\ commandTables = <<>>
    /\ \E case \in DistanceCases : inputText = case[1] /\ command = case[2]
    /\ pc = "executeEditChunkCommand"
    /\ chunk = NewChunk(inputText)
    /\ caller = "direct"
    /\ exc = ""
    /\ appliedText = <<>>
    /\ tableIx = 1
    /\ adjustedText = <<>>
    /\ cmdIx = 0
    /\ scan = NoScan
    /\ log = NoLog

SpecDistance == InitDistance /\ [][NextPlain]_vars

\* the start (0-based) of the most recent occurrence, of the first k, that
\* the distance policy replaces in full: the first one, and then each one
\* that starts the standard distance or more after the one before it
RECURSIVE LastFullStart(_, _)
LastFullStart(starts, k) ==
    IF k = 1 THEN starts[1]
    ELSE IF starts[k] - LastFullStart(starts, k - 1) >= STANDARD_DISTANCE THEN starts[k]
    ELSE LastFullStart(starts, k - 1)

\* the part of the replacement before its slash, or the replacement without
\* its \add ... \add* span
ShortForm(replaceText) ==
    IF Contains(replaceText, <<"/">>) THEN Take(replaceText, PyFind(replaceText, <<"/">>))
    ELSE IF Contains(replaceText, AddOpen) /\ Contains(replaceText, AddClose)
    THEN Take(replaceText, PyFind(replaceText, AddOpen))
         \o Drop(replaceText, PyFind(replaceText, AddClose) + Len(AddClose))
    ELSE replaceText

\* the text with its occurrences (at starts, 0-based) replaced by the
\* distance policy, from the k-th occurrence on
RECURSIVE Distanced(_, _, _, _)
Distanced(text, cmd, starts, k) ==
    IF k > Len(starts) THEN <<>>
    ELSE (IF LastFullStart(starts, k) = starts[k] THEN cmd.replaceText
          ELSE ShortForm(cmd.replaceText))
         \o SubSeq(text, starts[k] + Len(cmd.searchText) + 1,
                   IF k = Len(starts) THEN Len(text) ELSE starts[k + 1])
         \o Distanced(text, cmd, starts, k + 1)

\* the conditions of the distance policy
PolicyApplies(text, cmd) ==
    /\ "d" \in cmd.tags
    /\ "l" \notin cmd.tags
    /\ StrCount(text, cmd.searchText) > 1
    /\ Len(text) > STANDARD_DISTANCE

ValidForDistance(replaceText) ==
    Contains(replaceText, <<"/">>) \/ Contains(replaceText, AddOpen)

\* C16: under the distance policy the first occurrence gets the full
\* replaceText; a later occurrence gets it when its start is at least 2500
\* characters of the original text after the start of the last occurrence
\* replaced in full, and otherwise gets the short form.
C16_DistancePolicy ==
    (/\ pc = "return"
     /\ PolicyApplies(chunk.inputText, command)
     /\ ValidForDistance(command.replaceText)) =>
        \E starts \in {FindIndexes(chunk.inputText, command.searchText, 0)} :
            chunk.adjustedText =
                Take(chunk.inputText, starts[1])
                \o Distanced(chunk.inputText, command, starts, 1)

\* a third occurrence replaced in full, 2500 characters after the first,
\* with a second one in between replaced by the short form
C16_Witness ==
    /\ pc = "return"
    /\ PolicyApplies(chunk.inputText, command)
    /\ command.replaceText = <<"F", "F", "/", "s">>
    /\ chunk.inputText = DistanceText(<<STANDARD_DISTANCE \div 2 - 1, STANDARD_DISTANCE \div 2 - 1>>)
    /\ chunk.adjustedText =
          <<"F", "F", "/", "s">> \o [i \in 1..(STANDARD_DISTANCE \div 2 - 1) |-> "x"]
          \o <<"F", "F">> \o [i \in 1..(STANDARD_DISTANCE \div 2 - 1) |-> "x"]
          \o <<"F", "F", "/", "s">>

\* C17: whenever the conditions of the distance policy are not all met (no
\* 'd' tag, 'l' together with 'd', one occurrence, or a chunk of at most
\* 2500 characters) the plain replacer returns normally, and without the
\* 'l' tag what it returns is the base replacement with the full replaceText.
C17_BaseReplaceOtherwise ==
    (/\ pc \in {"return", "raised"}
     /\ ~PolicyApplies(chunk.inputText, command)) =>
        /\ pc = "return"
        /\ "l" \notin command.tags =>
              chunk.adjustedText =
                  StrReplace(chunk.inputText, command.searchText, command.replaceText)

\* C18: a command with the 'd' tag whose replaceText has neither a slash nor
\* an \add span is never applied to a text as an ordinary replacement, and
\* never makes the replacer fail while it transforms a text.
C18_InvalidDistanceRejectedEarly ==
    ("d" \in command.tags /\ ~ValidForDistance(command.replaceText)) =>
        /\ pc # "raised"
        /\ pc = "return" => chunk.adjustedText = chunk.inputText

-----------------------------------------------------------------------------
(* Two calls of executeEdits on different books and texts, with the same   *)
(* command tables.  Each call is first run alone, from its entry to its    *)
(* end; then the two are run again with the processor passing from one to  *)
(* the other at any step.                                                   *)

\* the parameters and the local variables of the running call
Locals ==
    [BBB |-> BBB, inputText |-> inputText, pc |-> pc, exc |-> exc,
     appliedText |-> appliedText, tableIx |-> tableIx, adjustedText |-> adjustedText,
     cmdIx |-> cmdIx, scan |-> scan, command |-> command, chunk |-> chunk,
     caller |-> caller, log |-> log]

\* the call at the entry of executeEdits( BBB, inputText, commandTables )
NewCall(book, text) ==
    [BBB |-> book, inputText |-> text, pc |-> "executeEdits", exc |-> "",
     appliedText |-> text, tableIx |-> 1, adjustedText |-> <<>>, cmdIx |-> 0,
     scan |-> NoScan, command |-> NoCommand, chunk |-> NewChunk(<<>>),
     caller |-> "", log |-> NoLog]

\* (a processor that gives a call the adjustedText of the call before it,
\* as if adjustedText were a variable of the module)
ResumeSharing(f) ==
    /\ BBB' = f.BBB /\ inputText' = f.inputText /\ pc' = f.pc /\ exc' = f.exc
    /\ appliedText' = f.appliedText /\ tableIx' = f.tableIx
    /\ adjustedText' = adjustedText /\ cmdIx' = f.cmdIx /\ scan' = f.scan
    /\ command' = f.command /\ chunk' = f.chunk /\ caller' = f.caller /\ log' = f.log

\* the processor goes on with a call: its parameters and locals are its own
Resume(f) ==
    /\ BBB' = f.BBB /\ inputText' = f.inputText /\ pc' = f.pc /\ exc' = f.exc
    /\ appliedText' = f.appliedText /\ tableIx' = f.tableIx
    /\ adjustedText' = f.adjustedText /\ cmdIx' = f.cmdIx /\ scan' = f.scan
    /\ command' = f.command /\ chunk' = f.chunk /\ caller' = f.caller /\ log' = f.log

\* what a call gives back: the text it returns, or the exception it raises
Outcome(f) == IF f.pc = "raised" THEN <<f.pc, f.exc>> ELSE <<f.pc, f.appliedText>>
Ended(f) == f.pc \in {"done", "raised"}

\* the books and texts of the calls
CallArguments ==
    { <<GEN, StrJoin(<<NL>>, <<Verse1Line, ContinuationLine>>)>>,
      <<GEN, StrJoin(<<NL>>, <<ChapterLine, Verse2Line>>)>>,
      <<EXO, Verse2Line>> }

\* tables that use every replacer and the line-by-line scan, and one with a
\* command that fails for GEN
SharedTables ==
    { << <<WordLink, WholeWord>>,
         <<BtoA, Looping, Filtered(AtoB, {}, {}, {}, {<<"v">>}, {}, {})>> >>,
      << <<BtoA, Filtered(AtoB, {GEN}, {GEN}, {}, {}, {}, {})>>, <<Looping>> >> }

InitInterleaved ==
    /\ commandTables \in SharedTables
    /\ \E a \in CallArguments, b \in CallArguments :
          /\ a # b
          /\ calls = [phase |-> "alone", running |-> 1, alone |-> <<>>, preempted |-> {},
                      others |-> <<NewCall(a[1], a[2]), NewCall(b[1], b[2])>>]
          /\ BBB = a[1]
          /\ inputText = a[2]
          /\ appliedText = a[2]
    /\ pc = "executeEdits"
    /\ exc = ""
    /\ tableIx = 1
    /\ adjustedText = <<>>
    /\ cmdIx = 0
    /\ scan = NoScan
    /\ command = NoCommand
    /\ chunk = NewChunk(<<>>)
    /\ caller = ""
    /\ log = NoLog

\* a call run alone has ended: its outcome is kept, and the next call is run
\* alone, or after the last one the two calls are started again, interleaved
AloneEnded ==
    /\ calls.phase = "alone"
    /\ Ended(Locals)
    /\ IF calls.running < Len(calls.others)
       THEN /\ calls' = [calls EXCEPT !.alone = Append(@, Outcome(Locals)),
                                      !.running = @ + 1]
            /\ Resume(calls.others[calls.running + 1])
       ELSE /\ calls' = [calls EXCEPT !.alone = Append(@, Outcome(Locals)),
                                      !.running = 1, !.phase = "interleaved"]
            /\ Resume(calls.others[1])
    /\ UNCHANGED commandTables

\* the processor leaves the running call where it is and goes on with another
SwitchCall ==
    /\ calls.phase = "interleaved"
    /\ \E other \in (1..Len(calls.others)) \ {calls.running} :
          /\ calls' = [calls EXCEPT
                         !.others[calls.running] = Locals,
                         !.running = other,
                         !.preempted = IF Ended(Locals) \/ pc = "executeEdits" THEN @
                                       ELSE @ \cup {calls.running}]
          /\ Resume(calls.others[other])
    /\ UNCHANGED commandTables

NextInterleaved ==
    \/ Next
    \/ AloneEnded
    \/ SwitchCall

SpecInterleaved == InitInterleaved /\ [][NextInterleaved]_vars

\* the parameters and locals of call i, running or not
CallState(i) == IF i = calls.running THEN Locals ELSE calls.others[i]

\* C19: every call of executeEdits that is interleaved with another call on
\* another book and text, with the same command tables, gives back what it
\* gave back when it ran alone; and no step of a call changes the tables.
C19_InterleavedAsAlone ==
    /\ [](calls.phase = "interleaved" =>
            \A i \in 1..Len(calls.others) :
                Ended(CallState(i)) => Outcome(CallState(i)) = calls.alone[i])
    /\ [][commandTables' = commandTables]_vars

\* both calls have ended, each one after it was left in the middle of its
\* run for the other, and each one with a text that it changed
C19_Witness ==
    /\ calls.phase = "interleaved"
    /\ calls.preempted = {1, 2}
    /\ \A i \in 1..2 :
          /\ CallState(i).pc = "done"
          /\ CallState(i).appliedText # CallState(i).inputText
          /\ Outcome(CallState(i)) = calls.alone[i]
    /\ Outcome(CallState(1)) # Outcome(CallState(2))

\* the marker that a line of the text carries, None for a blank line and for
\* a line without a marker
MarkerOfLine(line) ==
    IF RStrip(line, CR) = <<>> THEN None
    ELSE splitUSFMMarkerFromText(RStrip(line, CR))[1]

\* the marker of the last of the first n lines that carries one
RECURSIVE LastExplicitMarker(_, _)
LastExplicitMarker(lines, n) ==
    IF n = 0 THEN None
    ELSE IF MarkerOfLine(lines[n]) # None THEN MarkerOfLine(lines[n])
    ELSE LastExplicitMarker(lines, n - 1)

\* C20: between two lines of the line-by-line scan, lastMarker is the marker
\* of the most recent line read that has a marker of its own (None before
\* the first such line): blank lines and lines without a marker keep it.
C20_LastMarkerKept ==
    pc = "scan" => scan.lastMarker = LastExplicitMarker(scan.lines, scan.lineNumber)

\* the first token of a text, its tokens being delimited by spaces
RECURSIVE FirstToken(_)
FirstToken(text) ==
    IF text = <<>> THEN <<>>
    ELSE IF text[1] = SP THEN FirstToken(Tail(text))
    ELSE IF Contains(text, <<SP>>) THEN Take(text, PyFind(text, <<SP>>))
    ELSE text

\* the chapter and verse after the line is read, from those before it
TrackedOver(line, C, V) ==
    IF line = <<>> THEN <<C, V>>
    ELSE IF splitUSFMMarkerFromText(line)[1] = <<"c">>
    THEN <<splitUSFMMarkerFromText(line)[2], <<"0">>>>
    ELSE IF splitUSFMMarkerFromText(line)[1] = <<"v">>
    THEN <<C, FirstToken(splitUSFMMarkerFromText(line)[2])>>
    ELSE <<C, V>>

\* the chapter and verse after the first n lines: ("-1", "-1") at first, and
\* while the chapter is "-1" the verse is one more before every line
RECURSIVE Tracked(_, _)
Tracked(lines, n) ==
    IF n = 0 THEN <<<<"-", "1">>, <<"-", "1">>>>
    ELSE LET before == Tracked(lines, n - 1)
         IN  TrackedOver(RStrip(lines[n], CR), before[1],
                         IF before[1] = <<"-", "1">> /\ IntOk(before[2])
                         THEN IntToStr(StrToInt(before[2]) + 1) ELSE before[2])

\* C21: between two lines of the line-by-line scan the chapter and verse are
\* those of the reference tracker: ("-1", "-1") at first, the verse one more
\* before every line while the chapter is "-1", a c line setting the chapter
\* to its text and the verse to "0", a v line setting the verse to the first
\* token of its text; and the tracker never fails on a line.
C21_ReferenceTracker ==
    /\ pc = "scan" => <<scan.C, scan.V>> = Tracked(scan.lines, scan.lineNumber)
    /\ exc # "ValueError"

-----------------------------------------------------------------------------
(* splitUSFMMarkerFromText on its own: every line of at most MaxLen        *)
(* characters over a backslash, a space, an asterisk and a letter, and a   *)
(* line whose marker is DUMMY_VALUE characters long.  The state keeps a    *)
(* str as its runs of equal characters, <<character, length>> each.        *)

RECURSIVE ExpandRuns(_)
ExpandRuns(runs) ==
    IF runs = <<>> THEN <<>>
    ELSE [i \in 1..runs[1][2] |-> runs[1][1]] \o ExpandRuns(Tail(runs))

RECURSIVE RunsOf(_)
RunsFrom(s, others) ==
    IF others = {} THEN <<<<s[1], Len(s)>>>>
    ELSE CHOOSE r \in {<<<<s[1], k - 1>>>> \o RunsOf(Drop(s, k - 1)) :
                       k \in {CHOOSE k \in others : \A j \in others : k <= j}} : TRUE
RunsOf(s) ==
    IF s = <<>> THEN <<>>
    ELSE CHOOSE r \in {RunsFrom(s, others) :
                       others \in {{k \in 1..Len(s) : s[k] # s[1]}}} : TRUE

LongMarkerLine == <<<<BS, 1>>, <<"m", DUMMY_VALUE>>, <<SP, 1>>, <<"t", 1>>>>

SplitLines == {RunsOf(line) : line \in Strings({BS, SP, "*", "m"}, 0, MaxLen)} \cup {LongMarkerLine}

InitSplit ==
    /\ calls = OneCall
    /\ BBB = GEN
    /\ commandTables = <<>>
    /\ inputText \in SplitLines
    /\ pc = "splitUSFMMarkerFromText"
    /\ exc = ""
    /\ appliedText = <<>>
    /\ tableIx = 1
    /\ adjustedText = <<>>
    /\ cmdIx = 0
    /\ scan = NoScan
    /\ command = NoCommand
    /\ chunk = NewChunk(<<>>)
    /\ caller = "direct"
    /\ log = NoLog

\* marker, text = splitUSFMMarkerFromText( line )
SplitReturns(markerAndText) ==
    /\ scan' = [scan EXCEPT !.line = inputText, !.marker = RunsOf(markerAndText[1])]
    /\ adjustedText' = RunsOf(markerAndText[2])
    /\ pc' = "return"

SplitLine ==
    /\ pc = "splitUSFMMarkerFromText"
    /\ \E markerAndText \in {splitUSFMMarkerFromText(ExpandRuns(inputText))} :
          SplitReturns(markerAndText)
    /\ UNCHANGED <<calls, BBB, commandTables, inputText, exc, appliedText, tableIx, cmdIx,
                   command, chunk, caller, log>>

SpecSplit == InitSplit /\ [][SplitLine]_vars

\* the split of the remainder at position p (0-based) of its earliest
\* terminator, with no terminator at all when ps is empty
SplitAtEarliest(remainder, p) ==
    IF remainder[p + 1] = BS
    THEN IF p + 2 <= Len(remainder) /\ remainder[p + 2] = "*"
         THEN <<Take(remainder, p + 2), Drop(remainder, p + 2)>>
         ELSE <<Take(remainder, p), Drop(remainder, p)>>
    ELSE IF remainder[p + 1] = "*"
    THEN <<Take(remainder, p + 1), Drop(remainder, p + 1)>>
    ELSE <<Take(remainder, p), Drop(remainder, p + 1)>>

SplitOfRemainder(remainder, ps) ==
    IF ps = {} THEN <<remainder, <<>>>>
    ELSE SplitAtEarliest(remainder, CHOOSE p \in ps : \A q \in ps : p <= q)

MarkerAndTextOf(line) ==
    IF line = <<>> THEN <<None, <<>>>>
    ELSE IF line[1] # BS THEN <<None, line>>
    ELSE CHOOSE r \in {SplitOfRemainder(Tail(line), ps) :
                       ps \in {{p \in 0..(Len(line) - 2) : line[p + 2] \in {SP, "*", BS}}}} : TRUE

\* C22: splitUSFMMarkerFromText returns (None, "") for an empty line, (None,
\* line) for a line without a leading backslash, and otherwise splits the
\* rest of the line at its earliest space, asterisk or backslash: the whole
\* rest as the marker when there is none, the marker with a closing
\* backslash-asterisk, the marker before another backslash, the marker with
\* its asterisk, or the marker before a space that is dropped.
C22_MarkerSplit ==
    pc = "return" =>
        \E claimed \in {MarkerAndTextOf(ExpandRuns(inputText))} :
            /\ scan.marker = RunsOf(claimed[1])
            /\ adjustedText = RunsOf(claimed[2])

-----------------------------------------------------------------------------
(* The offsets of the distance policy.                                     *)

\* the positions (0-based) where sub occurs in text, overlapping or not
MatchPositions(text, sub) ==
    {k \in 0..(Len(text) - Len(sub)) : StartsWithAt(text, sub, k + 1)}

\* the occurrences that str.count counts: from the left, each one starting
\* where the one before it has ended or later
RECURSIVE OccurrencesFrom(_, _, _)
OccurrencesFrom(positions, width, from) ==
    CHOOSE r \in {IF later = {} THEN <<>>
                  ELSE CHOOSE q \in {<<k>> \o OccurrencesFrom(positions, width, k + width) :
                                     k \in {CHOOSE k \in later : \A j \in later : k <= j}} : TRUE :
                  later \in {{k \in positions : k >= from}}} : TRUE

Occurrences(text, sub) ==
    CHOOSE r \in {OccurrencesFrom(positions, Len(sub), 0) :
                  positions \in {MatchPositions(text, sub)}} : TRUE

\* the text with the occurrence at starts[k], for each k, replaced by
\* forms[k], and every character outside the occurrences kept
RECURSIVE ReplacedFrom(_, _, _, _, _)
ReplacedFrom(text, width, starts, forms, k) ==
    IF k > Len(starts) THEN <<>>
    ELSE forms[k]
         \o SubSeq(text, starts[k] + width + 1,
                   IF k = Len(starts) THEN Len(text) ELSE starts[k + 1])
         \o ReplacedFrom(text, width, starts, forms, k + 1)

EachReplacedOnce(text, cmd, starts, result) ==
    \E forms \in [1..Len(starts) -> {cmd.replaceText, ShortForm(cmd.replaceText)}] :
        result = Take(text, starts[1]) \o ReplacedFrom(text, Len(cmd.searchText), starts, forms, 1)

\* C23: under the distance policy, with a non-empty searchText, no
\* assertion of the bookkeeping fails (the offsets collected number the
\* occurrence count, the text at each adjusted offset starts with
\* searchText, full plus short replacements number the occurrence count),
\* and the text returned is the original with each of its occurrences
\* replaced once, by the full or the short form, and nothing else changed.
C23_OffsetsExact ==
    (/\ pc \in {"return", "raised"}
     /\ PolicyApplies(chunk.inputText, command)
     /\ ValidForDistance(command.replaceText)
     /\ command.searchText # <<>>) =>
        /\ pc = "return"
        /\ \E starts \in {Occurrences(chunk.inputText, command.searchText)} :
              /\ Len(starts) = StrCount(chunk.inputText, command.searchText)
              /\ EachReplacedOnce(chunk.inputText, command, starts, chunk.adjustedText)

\* "JJ" in "xJJJ", filler, "JJJJ" replaced by "JJJ/J" and twice by "JJJ":
\* three occurrences, the first after a prefix, and replacements that
\* differ in length and hold the search text themselves
C23_Witness ==
    /\ pc = "return"
    /\ command.tags = {"d"}
    /\ command.searchText = Name \o Name
    /\ command.replaceText = <<"J", "J", "J", "/", "J">>
    /\ Occurrences(chunk.inputText, command.searchText)
          = <<1, STANDARD_DISTANCE + 4, STANDARD_DISTANCE + 6>>
    /\ chunk.adjustedText =
          <<"x", "J", "J", "J", "/", "J", "J">> \o [i \in 1..STANDARD_DISTANCE |-> "x"]
          \o <<"J", "J", "J", "/", "J", "J", "J", "J">>

-----------------------------------------------------------------------------
(* The word-link loop on its own: the commands of the regex replacer whose *)
(* searchText has a word-link marker, each iteration taken when it can be. *)

InitWordLink ==
    /\ InitRegex
    /\ Contains(command.searchText, <<BrokenPipe>>)

NextWordLink ==
    \/ RegexEnter
    \/ WordLinkIter

\* the replacer has not ended: exactly the states where NextWordLink can
\* take a step, and every step of it changes pc or the number of replacements
WordLinkRunning == pc \in {"executeRegexEditChunkCommand", "wordLinkLoop"}

\* weak fairness of NextWordLink, with ENABLED <<NextWordLink>>_vars written
\* as the state predicate WordLinkRunning that it is equal to: the replacer
\* is sequential code, which takes its next step whenever it has one
SpecWordLinkFair ==
    /\ InitWordLink
    /\ [][NextWordLink]_vars
    /\ ([]<>~WordLinkRunning \/ []<><<NextWordLink>>_vars)

\* one iteration that spliced: the new text is the old one with the span
\* from start to end (0-based, end exclusive) replaced by the inserted
\* text, the span is not empty and begins at or after the old cursor, and
\* the new cursor is just after the inserted text
SplicedAt(start, end) ==
    /\ chunk.searchStartIndex <= start
    /\ start < end
    /\ chunk'.adjustedText = Take(chunk.adjustedText, start) \o chunk'.myRegexReplaceString
                             \o Drop(chunk.adjustedText, end)
    /\ chunk'.searchStartIndex = start + Len(chunk'.myRegexReplaceString)

Spliced ==
    \E start \in 0..Len(chunk.adjustedText) :
        \E end \in {Len(chunk.adjustedText)
                    - (Len(chunk'.adjustedText) - chunk'.searchStartIndex)} :
            SplicedAt(start, end)

CursorAdvances ==
    /\ chunk'.searchStartIndex > chunk.searchStartIndex
    /\ Len(chunk'.adjustedText) - chunk'.searchStartIndex
          < Len(chunk.adjustedText) - chunk.searchStartIndex

\* C24: the word-link loop ends, by a return or by an exception, on every
\* input; an iteration that goes round again has replaced exactly one
\* span, at or after the cursor, by the text it inserted, has put the
\* cursor just after that text, further on than it was, and has shortened
\* the text still to be scanned.
C24_WordLinkLoopTerminates ==
    /\ [][(pc = "wordLinkLoop" /\ pc' = "wordLinkLoop") => (Spliced /\ CursorAdvances)]_vars
    /\ (pc = "wordLinkLoop") ~> (pc \in {"return", "raised"})

\* two iterations done, each of which inserted text that the search
\* pattern matches and that the next search left alone
C24_Witness ==
    /\ pc = "return"
    /\ command.searchText = <<"a", BrokenPipe>>
    /\ command.replaceText = <<"b", BrokenPipe, SP, "a", BrokenPipe>>
    /\ chunk.numReplacements = 2
    /\ MatchCount(command, chunk.adjustedText) = 2

-----------------------------------------------------------------------------
(* The line structure under a structured command.                          *)

\* the line just scanned was not handed to the replacer: it is the last
\* of newLines, as it was in the input
PassedThroughIntact ==
    /\ Len(scan.newLines) = scan.lineNumber
    /\ scan.newLines[scan.lineNumber] = scan.lines[scan.lineNumber]

\* a finished structured command left as many lines as it was given, and
\* left the text as it was when it handed no line to the replacer
StructureKept(entry) ==
    /\ Len(StrSplit(entry.out, <<NL>>)) = Len(StrSplit(entry.in, <<NL>>))
    /\ entry.calls = <<>> => entry.out = entry.in

ReplacesWithinLine(entry) ==
    ~Contains(commandTables[entry.table][entry.cmd].replaceText, <<NL>>)

\* C25: a structured command whose replaceText has no newline returns as
\* many lines as it was given; every line it does not hand to the replacer
\* (blank or filtered out) goes out exactly as it came in, whatever its
\* line ending; and when it hands over no line it returns its input.
C25_LineStructureKept ==
    /\ (pc = "scan" /\ scan.lineNumber >= 1 /\ ~scan.handed) => PassedThroughIntact
    /\ \A i \in 1..Len(log.trace) :
          (/\ log.trace[i].mode = "structured"
           /\ log.trace[i].finished
           /\ ReplacesWithinLine(log.trace[i])) => StructureKept(log.trace[i])

-----------------------------------------------------------------------------
(* A book run twice: executeEditsOnAllFiles hands the book it found to     *)
(* executeEdits; when the call has ended its outcome is kept, the          *)
(* includeBooks of one command is changed, and the call is made again on   *)
(* the same book and text.                                                 *)

\* tables that use every replacer and the line-by-line scan, with
\* includeBooks and excludeBooks that name the book, the other book or none
BookTables ==
    SharedTables
    \cup { << <<Filtered(AtoB, {EXO}, {}, {}, {}, {}, {}), BtoA>> >>,
           << <<Filtered(AtoB, {}, {EXO}, {}, {}, {}, {})>>,
              <<Filtered(BtoA, {GEN}, {}, {}, {<<"c">>}, {}, {})>> >> }

BookSets == {{}, {GEN}, {EXO}, {GEN, EXO}}

InitBooks ==
    /\ commandTables \in BookTables
    /\ \E a \in CallArguments : BBB = a[1] /\ inputText = a[2]
    /\ calls = [phase |-> "first", first |-> <<>>, changed |-> <<>>]
    /\ pc = "executeEditsOnAllFiles"
    /\ exc = ""
    /\ appliedText = <<>>
    /\ tableIx = 1
    /\ adjustedText = <<>>
    /\ cmdIx = 0
    /\ scan = NoScan
    /\ command = NoCommand
    /\ chunk = NewChunk(<<>>)
    /\ caller = ""
    /\ log = NoLog

\* executeEditsOnAllFiles: the file of the book exists and has been read;
\* appliedText = executeEdits( BBB, inputText, state.commandTables )
CallExecuteEdits ==
    /\ pc = "executeEditsOnAllFiles"
    /\ Resume(NewCall(BBB, inputText))
    /\ UNCHANGED <<calls, commandTables>>

\* the tables with other includeBooks for command k of table t
WithIncludeBooks(tables, t, k, books) == [tables EXCEPT ![t][k].iBooks = books]

RunAgainWith(t, k, books) ==
    /\ commandTables' = WithIncludeBooks(commandTables, t, k, books)
    /\ calls' = [phase |-> "again", first |-> Outcome(Locals), changed |-> <<t, k>>]
    /\ Resume(NewCall(BBB, inputText))

\* the first call has ended: its outcome is kept and the book is run again
RunAgain ==
    /\ calls.phase = "first"
    /\ Ended(Locals)
    /\ \E t \in 1..Len(commandTables) :
          \E k \in 1..Len(commandTables[t]) :
              \E books \in BookSets \ {commandTables[t][k].iBooks} :
                  RunAgainWith(t, k, books)

NextBooks ==
    \/ Next
    \/ CallExecuteEdits
    \/ RunAgain

SpecBooks == InitBooks /\ [][NextBooks]_vars

\* the command whose includeBooks was changed for the second call
ChangedCommand == commandTables[calls.changed[1]][calls.changed[2]]

-----------------------------------------------------------------------------
(* The text spliced in by the word-link loop.                              *)

WithoutDigits(text) ==
    SelectSeq(text, LAMBDA c : \A d \in 1..Len(Digits) : c # Digits[d])

\* C27: the text that the word-link loop has spliced in for a match is
\* replaceText with an id put after each of its word-link markers and
\* nothing else changed, so that each backslash of replaceText is there
\* once (stated for a replaceText without digits: the spliced text with
\* its digits taken out is replaceText).
C27_BackslashesOnce ==
    (/\ pc \in {"wordLinkLoop", "return"}
     /\ Contains(command.searchText, <<BrokenPipe>>)
     /\ chunk.numReplacements >= 1
     /\ WithoutDigits(command.replaceText) = command.replaceText) =>
        WithoutDigits(chunk.myRegexReplaceString) = command.replaceText

====
